---------------------------- MODULE Spec2Model ----------------------------
(***************************************************************************)
(* A model of the DFTB+ adapter of ase: the input renderer                 *)
(* (Dftb.write_dftb_in), the species-capability reader                     *)
(* (read_max_angular_momentum) and the results parser (Dftb.read_results   *)
(* and the readers it calls), with the files they read and write.          *)
(*                                                                         *)
(* Text is modelled at the level the code inspects it.  A parameter key is *)
(* a sequence of tokens, "_" being the separator the code counts, strips   *)
(* and splits on; the other tokens are underscore-free pieces of a name.   *)
(* The token set is prefix-free, so comparing keys token by token in the   *)
(* order TokRank gives is Python's character-wise string comparison.       *)
(* A line of a data file is a sequence of items: whitespace separated      *)
(* words, with ":" and "," as items of their own where the code splits on  *)
(* them.  A numeric word is a string that Float or Int recognises.         *)
(***************************************************************************)
EXTENDS Integers, Sequences, FiniteSets, TLC

VARIABLES
    \* ---- the calculator object and its collaborators
    parameters,     \* self.parameters: key -> value
    atoms,          \* self.atoms: a sequence of chemical symbols, or NoAtoms
    pcpot,          \* self.pcpot: NoPcpot or [mmcharges, mmpositions]
    slako,          \* the files '<X>-<X>.skf' under slako_dir: symbol -> file
    \* ---- one run of write_dftb_in
    pc,             \* where the renderer stands
    params,         \* the local copy of the parameters, with inferred keys
    todo,           \* the sorted keys not yet emitted
    previous_key,   \* the loop's previous_key
    key,            \* the local 'key' (NoKey while unbound)
    doc,            \* the lines written to outfile so far
    skf_read,       \* the symbols whose .skf file was opened
    err,            \* the exception that ended the run ("" for none)
    \* ---- the calculator's files and what it read from them
    atoms_input,    \* self.atoms_input
    geo_end,        \* the structure written to 'geo_end.gen'
    results_tag,    \* the file 'results.tag'
    detailed_out,   \* the file 'detailed.out'
    lines,          \* self.lines
    results,        \* self.results: name -> value
    call,           \* the last call on the calculator, or run of the program, and its end
    runs,           \* how often the external program has run
    \* ---- one call of read_max_angular_momentum
    skf_in,         \* the file at `path`
    skf_out,        \* what the call returned or raised
    \* ---- the side-channel file of the point charges
    charges_dat,    \* the file 'dftb_external_charges.dat'
    \* ---- the Rotate window of the viewer
    gui,            \* the viewer: its axes and how often set_coordinates ran
    win             \* the window: update, the three adjustments, update_angles' position

calcObject == <<parameters, atoms, pcpot, slako>>
renderRun == <<pc, params, todo, previous_key, key, skf_read, err>>
calcFiles == <<atoms_input, geo_end, results_tag, detailed_out, lines, results,
               call, runs>>
skfCall == <<skf_in, skf_out>>
guiState == <<gui, win>>

vars == <<calcObject, renderRun, doc, calcFiles, skfCall, guiState, charges_dat>>

-----------------------------------------------------------------------------
(* Bounds of the model *)

\* generic keys are all token sequences of length 1..MaxKeyLen
MaxKeyLen == 3
\* a parameter mapping holds at most MaxKeys generic keys
MaxKeys == 3

-----------------------------------------------------------------------------
(* Sequences *)

RECURSIVE SeqsUpTo(_, _)
SeqsUpTo(S, n) ==
    IF n = 0 THEN {<<>>}
    ELSE LET P == SeqsUpTo(S, n - 1)
         IN  P \cup {Append(q, x) : q \in {p \in P : Len(p) = n - 1}, x \in S}

RECURSIVE SubsetsUpTo(_, _)
SubsetsUpTo(S, n) ==
    IF n = 0 THEN {{}}
    ELSE LET P == SubsetsUpTo(S, n - 1)
         IN  P \cup {T \cup {x} : T \in P, x \in S}

RECURSIVE Concat(_)
Concat(ss) == IF ss = <<>> THEN <<>> ELSE Head(ss) \o Concat(Tail(ss))

IsPrefix(p, q) == Len(p) <= Len(q) /\ SubSeq(q, 1, Len(p)) = p

-----------------------------------------------------------------------------
(* Keys: strings as token sequences *)

\* the position of a token in ASCII order: digits come before upper case
\* letters, these before '_', lower case letters after it
TokRank(t) ==
    CASE t = "000000000" -> 0
      [] t = "000000001" -> 1
      [] t = "000000002" -> 2
      [] t = "000000003" -> 3
      [] t = "1" -> 4
      [] t = "A" -> 5
      [] t = "C" -> 6
      [] t = "Hamiltonian" -> 7
      [] t = "KPointsAndWeights" -> 8
      [] t = "MaxAngularMomentum" -> 9
      [] t = "O" -> 10
      [] t = "ReadInitialCharges" -> 11
      [] t = "_" -> 12
      [] t = "dummy" -> 13
      [] t = "empty" -> 14

\* a < b for Python strings
StrLess(a, b) ==
    \E i \in 1..(Len(a) + 1) :
        /\ i <= Len(b)
        /\ \A j \in 1..(i - 1) : a[j] = b[j]
        /\ (i = Len(a) + 1 \/ TokRank(a[i]) < TokRank(b[i]))

\* sorted(params.items()): the keys are distinct, so the keys decide the order
RECURSIVE SortedKeys(_)
SortedKeys(S) ==
    IF S = {} THEN <<>>
    ELSE LET m == CHOOSE k \in S : \A o \in S \ {k} : StrLess(k, o)
         IN  <<m>> \o SortedKeys(S \ {m})

\* key.rstrip('_')
RECURSIVE RStrip(_)
RStrip(k) ==
    IF k # <<>> /\ k[Len(k)] = "_" THEN RStrip(SubSeq(k, 1, Len(k) - 1)) ELSE k

\* k.count('_')
CountUnderscores(k) == Cardinality({i \in 1..Len(k) : k[i] = "_"})

\* key.rstrip('_').count('_')
Depth(k) == CountUnderscores(RStrip(k))

\* key.endswith('_')
EndsWithUnderscore(k) == k # <<>> /\ k[Len(k)] = "_"

\* k.rsplit('_')[-1]: what follows the last '_'
LastSegment(k) ==
    LET us == {i \in 1..Len(k) : k[i] = "_"}
    IN  IF us = {} THEN k
        ELSE LET last == CHOOSE i \in us : \A j \in us : j <= i
             IN  SubSeq(k, last + 1, Len(k))

\* key.count('_empty')
CountEmpty(k) ==
    Cardinality({i \in 1..(Len(k) - 1) : k[i] = "_" /\ k[i + 1] = "empty"})

-----------------------------------------------------------------------------
(* Numbers in text *)

\* float(w) for the numeric words of the model, in units of 1e-8;
\* a word outside the table makes float() raise ValueError
FloatTable ==
    [w \in {"0.0", "0.000000000000000E+000", "1e-8", "-1e-8", "-0.1234",
            "1.0", "2.0", "3.0", "4.0", "5.0", "6.0", "7.0", "8.0", "9.0",
            "-10.123456", "1", "2", "3"} |->
        CASE w = "0.0" -> 0
          [] w = "0.000000000000000E+000" -> 0
          [] w = "1e-8" -> 1
          [] w = "-1e-8" -> -1
          [] w = "-0.1234" -> -12340000
          [] w = "1.0" -> 100000000
          [] w = "2.0" -> 200000000
          [] w = "3.0" -> 300000000
          [] w = "4.0" -> 400000000
          [] w = "5.0" -> 500000000
          [] w = "6.0" -> 600000000
          [] w = "7.0" -> 700000000
          [] w = "8.0" -> 800000000
          [] w = "9.0" -> 900000000
          [] w = "-10.123456" -> -1012345600
          [] w = "1" -> 100000000
          [] w = "2" -> 200000000
          [] w = "3" -> 300000000]

IsFloat(w) == w \in DOMAIN FloatTable
Float(w) == FloatTable[w]

\* int(w): the integer literals of the model; anything else is a ValueError
IntTable ==
    [w \in {"0", "1", "2", "3", "4"} |->
        CASE w = "0" -> 0 [] w = "1" -> 1 [] w = "2" -> 2
          [] w = "3" -> 3 [] w = "4" -> 4]

IsInt(w) == w \in DOMAIN IntTable
Int_(w) == IntTable[w]

Abs(x) == IF x < 0 THEN -x ELSE x

-----------------------------------------------------------------------------
(* read_max_angular_momentum: the species-capability (.skf) file *)

NoFile == [exists |-> FALSE, lines |-> <<>>]
SkfFile(ls) == [exists |-> TRUE, lines |-> ls]

\* fd.readline() for the n-th call: the n-th line, '' at the end of the file
ReadLine(f, n) == IF n <= Len(f.lines) THEN f.lines[n] ELSE <<>>

\* line.replace(',', ' ').split(): commas turn into blanks, and blanks
\* separate the words
ReplaceCommasSplit(line) == SelectSeq(line, LAMBDA w : w # ",")

\* words[pos:pos + l + 1], Python's forgiving slice (pos counts from 0)
Slice(words, from, to) ==
    IF from >= Len(words) THEN <<>>
    ELSE SubSeq(words, from + 1, IF to < Len(words) THEN to ELSE Len(words))

\* ScanOccs with `f >= 0.0` for `f > 0.0`
RECURSIVE ScanOccsNonNegative(_, _)
ScanOccsNonNegative(occs, l) ==
    IF occs = <<>> THEN [err |-> "", none |-> TRUE, l |-> 0]
    ELSE IF Float(Head(occs)) >= 0 THEN [err |-> "", none |-> FALSE, l |-> l]
    ELSE ScanOccsNonNegative(Tail(occs), l - 1)

\* for f in occs: if f > 0.0: return l; l -= 1    (and None at the end)
RECURSIVE ScanOccs(_, _)
ScanOccs(occs, l) ==
    IF occs = <<>> THEN [err |-> "", none |-> TRUE, l |-> 0]
    ELSE IF Float(Head(occs)) > 0 THEN [err |-> "", none |-> FALSE, l |-> l]
    ELSE ScanOccs(Tail(occs), l - 1)

read_max_angular_momentum(f) ==
    IF ~f.exists THEN [err |-> "FileNotFoundError", none |-> TRUE, l |-> 0]
    ELSE IF Len(f.lines) = 0
        \* line[0] of the empty string
        THEN [err |-> "IndexError", none |-> TRUE, l |-> 0]
    ELSE
        LET first    == ReadLine(f, 1)
            extended == first # <<>> /\ first[1] = "@"
            l        == IF extended THEN 3 ELSE 2
            pos      == IF extended THEN 9 ELSE 7
            line     == ReplaceCommasSplit(ReadLine(f, IF extended THEN 3 ELSE 2))
            occs     == Slice(line, pos, pos + l + 1)
        IN  IF \E i \in 1..Len(occs) : ~IsFloat(occs[i])
            THEN [err |-> "ValueError", none |-> TRUE, l |-> 0]
            ELSE ScanOccs(occs, l)

\* 'spdf'[l]
Spdf(l) == CASE l = 0 -> "s" [] l = 1 -> "p" [] l = 2 -> "d" [] l = 3 -> "f"


-----------------------------------------------------------------------------
(* The rendered document: the lines written to outfile *)

\* A line is its indentation (a number of blanks) and its text.  The text of
\* a key's line is kept by its form:
\*   "block"   <name> = <value>{        "bare"     <name> <value>{
\*   "assign"  <name> = <value>         "raw"      <value>
\*   "close"   }                        "lit"      a fixed text, in value
Line(kind, ind, name, value) ==
    [kind |-> kind, ind |-> ind, name |-> name, value |-> value]

Lit(ind, text) == Line("lit", ind, <<>>, text)
CloseLine(ind) == Line("close", ind, <<>>, "")

\* the fixed texts that end in '{' and the one that is '}'
LitOpens == {"Geometry = GenFormat {", "ElectricField = {", "PointCharges = {",
             "CoordsAndCharges [Angstrom] = DirectRead {", "Options {",
             "ParserOptions {", "Analysis {"}

OpensBlock(ln) ==
    ln.kind \in {"block", "bare"} \/ (ln.kind = "lit" /\ ln.value \in LitOpens)
ClosesBlock(ln) ==
    ln.kind = "close" \/ (ln.kind = "lit" /\ ln.value = "}")

NoAtoms == <<"None">>
NoKey == <<"None">>
NoList == <<"None">>
NoPcpot == [attached |-> FALSE, mmcharges |-> NoList, mmpositions |-> NoList]

\* 'DFTB' in str(value)
ContainsDFTB(value) == value \in {"DFTB", "DFTB2"}

\* len(self.pcpot.mmcharges), as text
RecordsText(pot) ==
    CASE Len(pot.mmcharges) = 0 -> "Records = 0"
      [] Len(pot.mmcharges) = 1 -> "Records = 1"
      [] Len(pot.mmcharges) = 2 -> "Records = 2"
      [] OTHER -> "Records = 3"

\* the header: the geometry is always taken from 'geo_end.gen'
HeaderLines ==
    << Lit(0, "Geometry = GenFormat {"),
       Lit(4, "<<< \"geo_end.gen\""),
       Lit(0, "}"),
       Lit(0, "") >>

\* a renderer that writes no closing line between two keys
ClosesBetweenNone(previous_depth, current_depth) == <<>>

\* a renderer that indents each closing line between two keys by the depth
\* that remains after it
ClosesBetweenRemaining(previous_depth, current_depth) ==
    LET n == previous_depth - current_depth
    IN  IF n <= 0 THEN <<>>
        ELSE [i \in 1..n |-> CloseLine(3 * (previous_depth - i))]

\* for my_backsclash in reversed(range(previous_depth - current_depth)):
\*     outfile.write(3 * (1 + my_backsclash) * myspace + '} \n')
ClosesBetween(previous_depth, current_depth) ==
    LET n == previous_depth - current_depth
    IN  IF n <= 0 THEN <<>>
        ELSE [i \in 1..n |-> CloseLine(3 * (1 + (n - i)))]

\* the line of one key, Dftb.write_dftb_in
KeyLineCalc(k, value) ==
    LET current_depth == Depth(k)
    IN  IF EndsWithUnderscore(k)
        THEN Line("block", 3 * current_depth, LastSegment(RStrip(k)), value)
        ELSE IF CountEmpty(k) = 1
        THEN Line("raw", 3 * current_depth, <<>>, value)
        ELSE Line("assign", 3 * current_depth, LastSegment(k), value)

\* len(self.pcpot.mmcharges) raises TypeError while the charges are None
PointChargeFails(value, pot) ==
    pot.attached /\ ContainsDFTB(value) /\ pot.mmcharges = NoList

\* the electric-field block written after a line whose value holds 'DFTB';
\* the three lines before 'Records' are all that is written when len() raises
PointChargeLines(pot) ==
    << Lit(3, "ElectricField = {"),
       Lit(6, "PointCharges = {"),
       Lit(9, "CoordsAndCharges [Angstrom] = DirectRead {") >>
    \o (IF pot.mmcharges = NoList THEN <<>>
        ELSE << Lit(12, RecordsText(pot)),
                Lit(12, "File = \"dftb_external_charges.dat\""),
                Lit(9, "}"),
                Lit(6, "}"),
                Lit(3, "}") >>)

\* one pass of the main loop of write_dftb_in: what it writes for `k`
KeyLines(prev, k, value, pot) ==
    ClosesBetween(Depth(prev), Depth(k))
        \o <<KeyLineCalc(k, value)>>
        \o (IF pot.attached /\ ContainsDFTB(value) THEN PointChargeLines(pot)
            ELSE <<>>)

\* for my_backsclash in reversed(range(current_depth)):
\*     outfile.write(3 * my_backsclash * myspace + '} \n')
TrailingCloses(current_depth) ==
    [i \in 1..current_depth |-> CloseLine(3 * (current_depth - i))]

TrailerLines ==
    << Lit(0, "Options {"),
       Lit(3, "WriteResultsTag = Yes"),
       Lit(0, "}"),
       Lit(0, "ParserOptions {"),
       Lit(3, "IgnoreUnprocessedNodes = Yes"),
       Lit(0, "}") >>

-----------------------------------------------------------------------------
(* Inferring the missing MaxAngularMomentum keys *)

\* s = 'Hamiltonian_MaxAngularMomentum_'
AngMomPrefix == <<"Hamiltonian", "_", "MaxAngularMomentum", "_">>

\* a test that takes the key of the MaxAngularMomentum block itself for a
\* key of a species
UserGaveAngMomOrBlock(ps) ==
    \E k \in DOMAIN ps : IsPrefix(AngMomPrefix, k)

\* for key in params: if key.startswith(s) and len(key) > len(s): break
UserGaveAngMom(ps) ==
    \E k \in DOMAIN ps : IsPrefix(AngMomPrefix, k) /\ Len(k) > Len(AngMomPrefix)

\* '"{}"'.format('spdf'[l])
QuotedSpdf(l) ==
    CASE l = 0 -> "\"s\"" [] l = 1 -> "\"p\"" [] l = 2 -> "\"d\"" [] l = 3 -> "\"f\""

\* the orders in which `for symbol in symbols` may visit a set
Orders(S) ==
    {o \in [1..Cardinality(S) -> S] : \A i, j \in 1..Cardinality(S) : o[i] = o[j] => i = j}

\* the loop over the symbols, visited in `order`: it stops at the first
\* file that cannot be read, and at the first l that is None ('spdf'[None])
RECURSIVE InferLoop(_, _, _, _)
InferLoop(order, files, ps, read) ==
    IF order = <<>> THEN [err |-> "", params |-> ps, read |-> read]
    ELSE LET symbol == Head(order)
             r      == read_max_angular_momentum(files[symbol])
             seen   == read \cup {symbol}
         IN  IF r.err # "" THEN [err |-> r.err, params |-> ps, read |-> seen]
             ELSE IF r.none THEN [err |-> "TypeError", params |-> ps, read |-> seen]
             ELSE InferLoop(Tail(order), files,
                            (AngMomPrefix \o <<symbol>> :> QuotedSpdf(r.l)) @@ ps,
                            seen)

Symbols(a) == {a[i] : i \in 1..Len(a)}


-----------------------------------------------------------------------------
(* Dftb.write_dftb_in, one step per statement group *)

\* outfile = open(filename, 'w'); the four header lines; params = copy
WriteHeader ==
    /\ pc = "start"
    /\ doc' = HeaderLines
    /\ params' = parameters
    /\ pc' = "infer"
    /\ UNCHANGED <<calcObject, todo, previous_key, key, skf_read, err,
                   calcFiles, skfCall, guiState, charges_dat>>

\* the for/else over params: nothing is inferred once the user gave a
\* MaxAngularMomentum key for any species; otherwise every symbol of
\* self.atoms gets its key from its .skf file
InferMomenta ==
    /\ pc = "infer"
    /\ IF UserGaveAngMom(params)
       THEN /\ pc' = "keys"
            /\ todo' = SortedKeys(DOMAIN params)
            /\ UNCHANGED <<params, skf_read, err>>
       ELSE IF atoms = NoAtoms
       THEN \* self.atoms.get_chemical_symbols() on None
            /\ pc' = "error"
            /\ err' = "AttributeError"
            /\ UNCHANGED <<params, todo, skf_read>>
       ELSE \E order \in Orders(Symbols(atoms)) :
            LET r == InferLoop(order, slako, params, {})
            IN  /\ skf_read' = r.read
                /\ params' = r.params
                /\ err' = r.err
                /\ IF r.err = ""
                   THEN pc' = "keys" /\ todo' = SortedKeys(DOMAIN r.params)
                   ELSE pc' = "error" /\ todo' = todo
    /\ previous_key' = <<"dummy", "_">>
    /\ UNCHANGED <<calcObject, key, doc, calcFiles, skfCall, guiState, charges_dat>>

\* one pass of `for key, value in sorted(params.items())`
EmitKey ==
    /\ pc = "keys"
    /\ todo # <<>>
    /\ key' = Head(todo)
    /\ doc' = doc \o KeyLines(previous_key, Head(todo), params[Head(todo)], pcpot)
    /\ previous_key' = Head(todo)
    /\ todo' = Tail(todo)
    /\ IF PointChargeFails(params[Head(todo)], pcpot)
       THEN pc' = "error" /\ err' = "TypeError"
       ELSE UNCHANGED <<pc, err>>
    /\ UNCHANGED <<calcObject, params, skf_read, calcFiles, skfCall, guiState, charges_dat>>

\* after the loop: current_depth of the last key, and the trailing closes;
\* with no key at all the name `key` is unbound there
CloseBlocks ==
    /\ pc = "keys"
    /\ todo = <<>>
    /\ IF key = NoKey
       THEN pc' = "error" /\ err' = "NameError" /\ doc' = doc
       ELSE /\ doc' = doc \o TrailingCloses(Depth(key))
            /\ pc' = "trailer"
            /\ err' = err
    /\ UNCHANGED <<calcObject, params, todo, previous_key, key, skf_read,
                   calcFiles, skfCall, guiState, charges_dat>>

\* the two fixed trailer blocks; outfile.close()
WriteTrailer ==
    /\ pc = "trailer"
    /\ doc' = doc \o TrailerLines
    /\ pc' = "done"
    /\ UNCHANGED <<calcObject, params, todo, previous_key, key, skf_read, err,
                   calcFiles, skfCall, guiState, charges_dat>>

NextRender == WriteHeader \/ InferMomenta \/ EmitKey \/ CloseBlocks \/ WriteTrailer

-----------------------------------------------------------------------------
(* The inputs of the renderer *)

KeyAlphabet == {"A", "_"}
GenericKeys == SeqsUpTo(KeyAlphabet, MaxKeyLen) \ {<<>>}

\* a simple-format .skf file: a first line, then the line whose words
\* 7..9 are the occupations of d, p and s
SimpleSkf(occs) ==
    SkfFile(<< <<"0.0", "0.0">>,
               <<"0.0", "0.0", "0.0", "0.0", "0.0", "0.0", "0.0">> \o occs >>)

\* an extended-format .skf file: '@', a line that is skipped, then the line
\* whose words 9..12 are the occupations of f, d, p and s
ExtendedSkf(occs) ==
    SkfFile(<< <<"@">>, <<"0.0", "0.0">>,
               <<"0.0", "0.0", "0.0", "0.0", "0.0", "0.0", "0.0", "0.0", "0.0">>
                   \o occs >>)

AngMomKeys ==
    { <<"Hamiltonian", "_">>, AngMomPrefix,
      AngMomPrefix \o <<"C">>, AngMomPrefix \o <<"O">> }

\* a renderer that has not run, or (at "idle") is not run step by step
InitRun(at) ==
    /\ pc = at
    /\ params = <<>>
    /\ todo = <<>>
    /\ previous_key = NoKey
    /\ key = NoKey
    /\ doc = <<>>
    /\ skf_read = {}
    /\ err = ""

NoCall == [op |-> "none", err |-> "", wrote |-> {}, before |-> {}]

\* the calculator after construction, in a directory without output files
InitFiles ==
    /\ atoms_input = NoAtoms
    /\ geo_end = NoAtoms
    /\ results_tag = NoFile
    /\ detailed_out = NoFile
    /\ lines = NoList
    /\ results = <<>>
    /\ call = NoCall
    /\ runs = 0

\* no viewer and no Rotate window
NoGui == [axes |-> <<>>, set_coordinates |-> 0]
NoWindow == [update |-> TRUE, rotate |-> <<>>, at |-> "closed", angles |-> <<>>, i |-> 0]

NotCalled == [err |-> "not called", none |-> TRUE, l |-> 0]

InitSkfIdle ==
    /\ skf_in = NoFile
    /\ skf_out = NotCalled
    /\ charges_dat = NoFile
    /\ gui = NoGui
    /\ win = NoWindow

\* any mapping of up to MaxKeys generic keys, for a structure of oxygen
\* atoms or of no atom
InitGeneric ==
    /\ \E ks \in SubsetsUpTo(GenericKeys, MaxKeys) : parameters = [k \in ks |-> "v"]
    /\ atoms \in {<<>>, <<"O">>}
    /\ pcpot = NoPcpot
    /\ slako = [x \in {"C", "O"} |-> SimpleSkf(<<"0.0", "2.0", "2.0">>)]
    /\ InitRun("start")
    /\ InitFiles
    /\ InitSkfIdle

\* the MaxAngularMomentum family: any of its keys, any structure of C and O,
\* and for each species a file that is good, useless or missing
InitAngMom ==
    /\ \E ks \in SUBSET AngMomKeys : parameters = [k \in ks |-> "v"]
    /\ atoms \in {NoAtoms} \cup (SeqsUpTo({"C", "O"}, 2) \ {<<>>})
    /\ pcpot = NoPcpot
    /\ slako \in [{"C", "O"} -> { SimpleSkf(<<"0.0", "2.0", "2.0">>),
                                   ExtendedSkf(<<"0.0", "1.0", "2.0", "2.0">>),
                                   SimpleSkf(<<"0.0", "0.0", "0.0">>),
                                   NoFile }]
    /\ InitRun("start")
    /\ InitFiles
    /\ InitSkfIdle

InitRender == InitGeneric \/ InitAngMom

SpecRender == InitRender /\ [][NextRender]_vars


-----------------------------------------------------------------------------
(* Properties of the rendered document *)

Count(d, P(_)) == Cardinality({i \in 1..Len(d) : P(d[i])})

\* every prefix has at least as many opening as closing lines, and the
\* whole document as many of the one as of the other
Balanced(d) ==
    /\ \A n \in 1..Len(d) :
           Count(SubSeq(d, 1, n), ClosesBlock) <= Count(SubSeq(d, 1, n), OpensBlock)
    /\ Count(d, ClosesBlock) = Count(d, OpensBlock)

\* the closing lines of the main keyword section
IsKeywordClose(ln) == ln.kind = "close"
KeywordCloses(d) == SelectSeq(d, IsKeywordClose)

MaxOf(S) == IF S = {} THEN 0 ELSE CHOOSE x \in S : \A y \in S : y <= x
MaxDepth(ps) == MaxOf({Depth(k) : k \in DOMAIN ps})

\* the levels dropped between consecutive keys of the sorted order
RECURSIVE Drops(_)
Drops(ks) ==
    IF Len(ks) < 2 THEN 0
    ELSE (IF Depth(ks[1]) > Depth(ks[2]) THEN Depth(ks[1]) - Depth(ks[2]) ELSE 0)
         + Drops(Tail(ks))

KeysWritten == pc \in {"trailer", "done"}
LastKey == LET ks == SortedKeys(DOMAIN params) IN ks[Len(ks)]

\* C1: for every parameter mapping the rendered document has balanced
\* braces: as many opening as closing lines, and no prefix with more closes
\* than opens.
C1_BalancedBraces == pc = "done" => Balanced(doc)

HasAngMomLine(d, symbol, value) ==
    \E i \in 1..Len(d) : d[i] = Line("assign", 6, <<symbol>>, value)

Inferred == pc \in {"keys", "trailer", "done"}

\* C9 as stated: every species of the structure without its own
\* MaxAngularMomentum key has its .skf file read and gets an inferred entry,
\* also when the user gave the key of another species.
C9_InferredPerSpecies ==
    Inferred =>
        \A x \in Symbols(atoms) :
            (AngMomPrefix \o <<x>>) \notin DOMAIN parameters =>
                /\ x \in skf_read
                /\ (AngMomPrefix \o <<x>>) \in DOMAIN params

\* C9 as amended: when the parameters hold no MaxAngularMomentum key of any
\* species, every species of the structure has its file read and its
\* inferred entry is in the document; when they hold the key of some
\* species, no file is read and no entry is added for any other species.
C9_InferredAllOrNone ==
    /\ (Inferred /\ parameters # <<>>
          /\ \E k \in DOMAIN parameters :
                 \E x \in {"C", "O"} : k = AngMomPrefix \o <<x>>)
           => skf_read = {} /\ params = parameters
    /\ (Inferred /\ ~(\E k \in DOMAIN parameters :
                         \E x \in {"C", "O"} : k = AngMomPrefix \o <<x>>))
           => /\ atoms # NoAtoms
              /\ skf_read = Symbols(atoms)
              /\ \A x \in Symbols(atoms) :
                     /\ (AngMomPrefix \o <<x>>) \in DOMAIN params
                     /\ pc = "done" => \E l \in 0..3 : HasAngMomLine(doc, x, QuotedSpdf(l))

\* C9's case: a document written for a structure of two species whose
\* entries were both inferred
C9_Witness ==
    /\ pc = "done"
    /\ Symbols(atoms) = {"C", "O"}
    /\ skf_read = {"C", "O"}
    /\ HasAngMomLine(doc, "C", "\"p\"")
    /\ HasAngMomLine(doc, "O", "\"d\"")


-----------------------------------------------------------------------------
(* The output files of the external program, as the parser reads them *)

\* lines[i] for Python's index i (from 0)
Nth(ls, i) == ls[i + 1]

\* m in line, for a marker that is one word
Has(line, m) == \E i \in 1..Len(line) : line[i] = m

\* m1 + ' ' + m2 in line, for a marker of two words
HasPair(line, m1, m2) ==
    \E i \in 1..(Len(line) - 1) : line[i] = m1 /\ line[i + 1] = m2

\* the Python index of the last of the lines `hits`, -1 if there is none
LastIndex(hits) ==
    IF hits = {} THEN -1 ELSE (CHOOSE i \in hits : \A j \in hits : j <= i) - 1

\* the Python index of the first of the lines `hits`, -1 if there is none
FirstIndex(hits) ==
    IF hits = {} THEN -1 ELSE (CHOOSE i \in hits : \A j \in hits : i <= j) - 1

\* the lines that hold the marker m
LinesWith(ls, m) == {i \in 1..Len(ls) : Has(ls[i], m)}

IsSeparator(w) == w \in {":", ","}

\* line.replace(':', ',').split(','): the components between separators
RECURSIVE Components(_)
Components(line) ==
    LET seps == {i \in 1..Len(line) : IsSeparator(line[i])}
    IN  IF seps = {} THEN <<line>>
        ELSE LET first == CHOOSE i \in seps : \A j \in seps : i <= j
             IN  <<SubSeq(line, 1, first - 1)>>
                     \o Components(SubSeq(line, first + 1, Len(line)))

\* int(c) of a component: one word that is an integer literal
IntOk(c) == Len(c) = 1 /\ IsInt(c[1])
IntOf(c) == Int_(c[1])

\* x * unit, the conversion to ase's units kept symbolic
Scaled(x, unit) == [x |-> x, unit |-> unit]

Ok(v) == [err |-> "", none |-> FALSE, val |-> v]
Raise(e) == [err |-> e, none |-> TRUE, val |-> <<>>]

\* a reader that takes every word of a row
read_forces_whole_rows(ls) ==
    LET iline == FirstIndex(LinesWith(ls, "forces"))
    IN  IF iline >= 0 /\ ~IntOk(Components(Nth(ls, iline))[Len(Components(Nth(ls, iline)))])
        THEN Raise("ValueError")
        ELSE IF iline < 0
        THEN Raise("RuntimeError: Problem in reading forces")
        ELSE
            LET comps == Components(Nth(ls, iline))
                index_force_begin == iline + 1
                index_force_end == iline + 1 + IntOf(comps[Len(comps)])
                rows == index_force_begin..(index_force_end - 1)
                RowOk(j) == /\ j < Len(ls)
                            /\ Len(Nth(ls, j)) >= 3
                            /\ \A k \in 1..Len(Nth(ls, j)) : IsFloat(Nth(ls, j)[k])
            IN  IF \E j \in rows : ~RowOk(j)
                THEN Raise("RuntimeError: Problem in reading forces")
                ELSE Ok([n \in 1..(index_force_end - index_force_begin) |->
                           [k \in 1..Len(Nth(ls, index_force_begin + n - 1)) |->
                               Scaled(Float(Nth(ls, index_force_begin + n - 1)[k]),
                                      "Hartree/Bohr")]])

\* Dftb.read_forces: the marker, the row count after its last separator
\* (int() is outside the try), then the rows inside the try
read_forces(ls) ==
    LET iline == FirstIndex(LinesWith(ls, "forces"))
    IN  IF iline >= 0 /\ ~IntOk(Components(Nth(ls, iline))[Len(Components(Nth(ls, iline)))])
        THEN Raise("ValueError")
        ELSE IF iline < 0
        \* index_force_begin is unbound: the NameError is raised inside the try
        THEN Raise("RuntimeError: Problem in reading forces")
        ELSE
            LET comps == Components(Nth(ls, iline))
                index_force_begin == iline + 1
                index_force_end == iline + 1 + IntOf(comps[Len(comps)])
                rows == index_force_begin..(index_force_end - 1)
                RowOk(j) == /\ j < Len(ls)
                            /\ Len(Nth(ls, j)) >= 3
                            /\ \A k \in 1..3 : IsFloat(Nth(ls, j)[k])
            IN  IF \E j \in rows : ~RowOk(j)
                THEN Raise("RuntimeError: Problem in reading forces")
                ELSE Ok([n \in 1..(index_force_end - index_force_begin) |->
                           [k \in 1..3 |->
                               Scaled(Float(Nth(ls, index_force_begin + n - 1)[k]),
                                      "Hartree/Bohr")]])

\* 1e-8, in the unit of Float
FermiEps == 1

\* a reader without the assert on the number of words
read_fermi_levels_unasserted(ls) ==
    LET iline == FirstIndex(LinesWith(ls, "fermi_level"))
        index_fermi == iline + 1
    IN  IF iline < 0 THEN [err |-> "", none |-> TRUE, val |-> <<>>]
        ELSE IF \/ index_fermi >= Len(ls)
                \/ \E i \in 1..Len(Nth(ls, index_fermi)) : ~IsFloat(Nth(ls, index_fermi)[i])
        THEN [err |-> "RuntimeError: Problem in reading Fermi levels",
              none |-> TRUE, val |-> <<>>]
        ELSE LET words == Nth(ls, index_fermi)
                 kept  == SelectSeq(words, LAMBDA w : Abs(Float(w)) > FermiEps)
             IN  [err |-> "", none |-> FALSE,
                  val |-> [i \in 1..Len(kept) |-> Scaled(Float(kept[i]), "Hartree")]]

\* Dftb.read_fermi_levels: None without the marker; inside the try the next
\* line must exist, hold two words (the assert) and both must be numbers
read_fermi_levels(ls) ==
    LET iline == FirstIndex(LinesWith(ls, "fermi_level"))
        index_fermi == iline + 1
    IN  IF iline < 0 THEN [err |-> "", none |-> TRUE, val |-> <<>>]
        ELSE IF \/ index_fermi >= Len(ls)
                \/ Len(Nth(ls, index_fermi)) # 2
                \/ \E i \in 1..Len(Nth(ls, index_fermi)) : ~IsFloat(Nth(ls, index_fermi)[i])
        THEN [err |-> "RuntimeError: Problem in reading Fermi levels",
              none |-> TRUE, val |-> <<>>]
        ELSE LET words == Nth(ls, index_fermi)
                 kept  == SelectSeq(words, LAMBDA w : Abs(Float(w)) > FermiEps)
             IN  [err |-> "", none |-> FALSE,
                  val |-> [i \in 1..Len(kept) |-> Scaled(Float(kept[i]), "Hartree")]]


\* the stress block of Dftb.read_results: every line holding 'stress' adds
\* the three lines after it as rows; nothing is caught here
StressRows(ls) ==
    LET heads == {i \in 0..(Len(ls) - 1) : Has(Nth(ls, i), "stress")}
        NotNumeric(j) == \E k \in 1..Len(Nth(ls, j)) : ~IsFloat(Nth(ls, j)[k])
        \* the first of the three rows after line i that cannot be read
        \* decides: float() fails on a row that is there, lines[j] on one
        \* that is not
        Present(i) == {j \in (i + 1)..(i + 3) : j < Len(ls)}
        RECURSIVE Collect(_, _)
        Collect(i, acc) ==
            IF i >= Len(ls) THEN Ok(acc)
            ELSE IF i \notin heads THEN Collect(i + 1, acc)
            ELSE IF \E j \in Present(i) : NotNumeric(j) THEN Raise("ValueError")
            ELSE IF i + 3 >= Len(ls) THEN Raise("IndexError")
            ELSE Collect(i + 1, acc \o [n \in 1..3 |->
                                           [k \in 1..Len(Nth(ls, i + n)) |->
                                               Float(Nth(ls, i + n)[k])]])
    IN  [have_stress |-> heads # {}, rows |-> Collect(0, <<>>)]

\* a selection that takes xy, xz and yz from the first row on
VoigtIndicesRowMajor == <<0, 4, 8, 1, 2, 5>>

\* the flattened array's entries [0, 4, 8, 5, 2, 1]
VoigtIndices == <<0, 4, 8, 5, 2, 1>>

\* -np.array(stress) * Hartree / Bohr**3, then .flat[[0, 4, 8, 5, 2, 1]]:
\* rows of unequal length make no numeric array, and a flat array of fewer
\* than nine entries has no entry 8
read_stress(ls) ==
    LET s == StressRows(ls)
    IN  IF ~s.have_stress THEN [err |-> "", none |-> TRUE, val |-> <<>>]
        ELSE IF s.rows.err # "" THEN [err |-> s.rows.err, none |-> TRUE, val |-> <<>>]
        ELSE LET rows == s.rows.val
                 flat == Concat(rows)
             IN  IF \E i, j \in 1..Len(rows) : Len(rows[i]) # Len(rows[j])
                 THEN [err |-> "ValueError", none |-> TRUE, val |-> <<>>]
                 ELSE IF Len(flat) < 9
                 THEN [err |-> "IndexError", none |-> TRUE, val |-> <<>>]
                 ELSE [err |-> "", none |-> FALSE,
                       val |-> [n \in 1..6 |->
                                  Scaled(-flat[VoigtIndices[n] + 1], "Hartree/Bohr**3")]]

\* a division that rounds down
FloorDiv(a, b) == a \div b

\* ceil(nband / ncol)
CeilDiv(a, b) == (a + b - 1) \div b

\* Dftb.read_eigenvalues: the header's last four components are ncol,
\* nband, nkpt, nspin (int() and the division are outside the try); the rows
\* are read spin by spin, k-point by k-point, inside the try
read_eigenvalues(ls) ==
    LET iline == FirstIndex(LinesWith(ls, "eigenvalues"))
    IN  IF iline < 0 THEN [err |-> "", none |-> TRUE, val |-> <<>>]
        ELSE
        LET comps == Components(Nth(ls, iline))
            last4 == SubSeq(comps, IF Len(comps) > 4 THEN Len(comps) - 3 ELSE 1, Len(comps))
        IN  IF Len(last4) # 4 \/ \E i \in 1..Len(last4) : ~IntOk(last4[i])
            THEN [err |-> "ValueError", none |-> TRUE, val |-> <<>>]
            ELSE
            LET ncol  == IntOf(last4[1])
                nband == IntOf(last4[2])
                nkpt  == IntOf(last4[3])
                nspin == IntOf(last4[4])
            IN  IF ncol = 0
                THEN [err |-> "ZeroDivisionError", none |-> TRUE, val |-> <<>>]
                ELSE
                LET rows_per_kpt == CeilDiv(nband, ncol)
                    index_eigval_begin == iline + 1
                    \* the Python index of the first row of spin i, k-point j
                    Start(i, j) == index_eigval_begin + (i * nkpt + j) * rows_per_kpt
                    RowOk(r) == r < Len(ls) /\
                                \A k \in 1..Len(Nth(ls, r)) : IsFloat(Nth(ls, r)[k])
                    Values(i, j) ==
                        Concat([k \in 1..rows_per_kpt |->
                                   [n \in 1..Len(Nth(ls, Start(i, j) + k - 1)) |->
                                       Scaled(Float(Nth(ls, Start(i, j) + k - 1)[n]),
                                              "Hartree")]])
                    \* eigval[j, i] = eigenvalues: nband values, or one value
                    \* that numpy repeats nband times
                    Fits(i, j) == Len(Values(i, j)) \in {nband, 1}
                    cells == (0..(nkpt - 1)) \X (0..(nspin - 1))
                IN  IF \/ \E c \in cells : \E k \in 0..(rows_per_kpt - 1) :
                                ~RowOk(Start(c[2], c[1]) + k)
                       \/ \E c \in cells : ~Fits(c[2], c[1])
                    THEN [err |-> "RuntimeError: Problem in reading eigenvalues",
                          none |-> TRUE, val |-> <<>>]
                    ELSE [err |-> "", none |-> FALSE,
                          val |-> [c \in cells |->
                                     IF Len(Values(c[2], c[1])) = nband
                                     THEN Values(c[2], c[1])
                                     ELSE [n \in 1..nband |-> Values(c[2], c[1])[1]]]]


\* the test that finds the charge header: ('Atom' and 'Net charge' in line)
\* is Python's `'Atom' and ('Net charge' in line)`, and 'Atom' is true
IsChargeHeader(line) == HasPair(line, "Net", "charge")

\* line.strip().startswith('Total energy:')
IsEnergyLine(line) == Len(line) >= 2 /\ line[1] = "Total" /\ line[2] = "energy:"

\* Dftb.read_charges_and_energy on detailed.out, for self.atoms = at
read_charges_and_energy(f, at) ==
    IF ~f.exists THEN Raise("FileNotFoundError")
    ELSE
    LET ls     == f.lines
        eline  == FirstIndex({i \in 1..Len(ls) : IsEnergyLine(ls[i])})
        n      == FirstIndex({i \in 1..Len(ls) : IsChargeHeader(ls[i])})
    IN  IF eline >= 0 /\ Len(Nth(ls, eline)) < 3 THEN Raise("IndexError")
        ELSE IF eline >= 0 /\ ~IsFloat(Nth(ls, eline)[3]) THEN Raise("ValueError")
        ELSE IF n < 0
        THEN IF eline < 0 THEN Raise("UnboundLocalError")
             ELSE Ok([charges_none |-> TRUE, charges |-> <<>>,
                      energy |-> Scaled(Float(Nth(ls, eline)[3]), "Hartree")])
        ELSE IF at = NoAtoms THEN Raise("TypeError")
        ELSE
        LET chargestart == n + 1
            lines1 == Slice(ls, chargestart, chargestart + Len(at))
            bad    == {i \in 1..Len(lines1) :
                          lines1[i] = <<>> \/ ~IsFloat(lines1[i][Len(lines1[i])])}
        IN  IF bad # {}
            THEN LET i == CHOOSE i \in bad : \A j \in bad : i <= j
                 IN  IF lines1[i] = <<>> THEN Raise("IndexError") ELSE Raise("ValueError")
            ELSE IF eline < 0 THEN Raise("UnboundLocalError")
            ELSE Ok([charges_none |-> FALSE,
                     charges |-> [i \in 1..Len(lines1) |->
                                     Float(lines1[i][Len(lines1[i])])],
                     energy |-> Scaled(Float(Nth(ls, eline)[3]), "Hartree")])

\* a mapping that drops what is stored in it
StoreNothing(res, name, value) == res

\* self.results[name] = value
Store(res, name, value) == (name :> value) @@ res

\* Dftb.get_charges
get_charges(res) ==
    IF "charges" \in DOMAIN res THEN [none |-> FALSE, val |-> res["charges"]]
    ELSE [none |-> TRUE, val |-> <<>>]

\* Dftb.read_results after results.tag was read into self.lines, as the
\* progress of the call: `err` the exception that ended it, `results` the
\* mapping, `wrote` the entries the call has stored, `removed` whether
\* os.remove was reached
Begin(res) == [err |-> "", results |-> res, wrote |-> {}, removed |-> FALSE]

Put(p, name, value) ==
    [p EXCEPT !.results = Store(@, name, value), !.wrote = @ \cup {name}]

\* charges, energy = self.read_charges_and_energy() and the two entries
AddChargesAndEnergy(p, ce) ==
    IF ce.err # "" THEN [p EXCEPT !.err = ce.err]
    ELSE Put(IF ce.val.charges_none THEN p ELSE Put(p, "charges", ce.val.charges),
             "energy", ce.val.energy)

\* a section whose result is stored also when it is None
AddAlsoNone(p, name, r) ==
    IF p.err # "" THEN p
    ELSE IF r.err # "" THEN [p EXCEPT !.err = r.err]
    ELSE Put(p, name, r.val)

\* one more section: nothing after an exception, the exception of the
\* section, or its entry unless the section returned None
Add(p, name, r) ==
    IF p.err # "" THEN p
    ELSE IF r.err # "" THEN [p EXCEPT !.err = r.err]
    ELSE IF r.none THEN p
    ELSE Put(p, name, r.val)

\* a call that removes the file however it ends
FinishRemoves(p) == [p EXCEPT !.removed = TRUE]

\* os.remove at the end of a call that did not raise
Finish(p) == [p EXCEPT !.removed = (p.err = "")]

\* the sections in the order of the code, each result stored as soon as it
\* is parsed
ParseSections(ls, detail, at, res) ==
    Finish(
      Add(
        Add(
          Add(
            Add(AddChargesAndEnergy(Begin(res), read_charges_and_energy(detail, at)),
                "forces", read_forces(ls)),
            "stress", read_stress(ls)),
          "fermi_levels", read_fermi_levels(ls)),
        "eigenvalues", read_eigenvalues(ls)))

-----------------------------------------------------------------------------
(* read_max_angular_momentum on its own *)

\* an occupation line holds at most MaxOccs occupation words
MaxOccs == 4

\* "a, b, c": the words of a line, a comma after each but the last
RECURSIVE WithCommas(_)
WithCommas(ws) ==
    IF Len(ws) <= 1 THEN ws ELSE <<Head(ws), ",">> \o WithCommas(Tail(ws))

OccWords == {"0.0", "2.0"}

\* the files of both formats with every occupation line of up to MaxOccs
\* words, with and without commas, and the files that cannot be parsed
SkfInputs ==
    {SimpleSkf(o) : o \in SeqsUpTo(OccWords, MaxOccs)}
        \cup {ExtendedSkf(o) : o \in SeqsUpTo(OccWords, MaxOccs)}
        \cup {SkfFile(<<f.lines[1], WithCommas(f.lines[2])>>) :
                 f \in {SimpleSkf(o) : o \in SeqsUpTo(OccWords, MaxOccs)}}
        \cup {SkfFile(<<f.lines[1], f.lines[2], WithCommas(f.lines[3])>>) :
                 f \in {ExtendedSkf(o) : o \in SeqsUpTo(OccWords, MaxOccs)}}
        \cup {NoFile, SkfFile(<<>>), SkfFile(<< <<"@">> >>),
              SimpleSkf(<<"2.0", "x", "0.0">>)}

InitSkf ==
    /\ skf_in \in SkfInputs
    /\ skf_out = NotCalled
    /\ charges_dat = NoFile
    /\ gui = NoGui
    /\ win = NoWindow
    /\ parameters = <<>>
    /\ atoms = NoAtoms
    /\ pcpot = NoPcpot
    /\ slako = [x \in {"C", "O"} |-> NoFile]
    /\ InitRun("idle")
    /\ InitFiles

ReadMomentum ==
    /\ skf_out = NotCalled
    /\ skf_out' = read_max_angular_momentum(skf_in)
    /\ UNCHANGED <<calcObject, renderRun, doc, calcFiles, skf_in, guiState, charges_dat>>

NextSkf == ReadMomentum

SpecSkf == InitSkf /\ [][NextSkf]_vars

\* the occupation words the format puts at its offset, as numbers: the
\* first belongs to the format's highest index l0, the next to l0 - 1, ...
IsExtended(f) == f.lines[1] # <<>> /\ f.lines[1][1] = "@"
TopIndex(f) == IF IsExtended(f) THEN 3 ELSE 2
OccsAtOffset(f) ==
    LET line == ReplaceCommasSplit(ReadLine(f, IF IsExtended(f) THEN 3 ELSE 2))
        from == IF IsExtended(f) THEN 9 ELSE 7
    IN  [i \in 1..(IF Len(line) - from < 0 THEN 0
                   ELSE IF Len(line) - from > TopIndex(f) + 1 THEN TopIndex(f) + 1
                   ELSE Len(line) - from) |-> line[from + i]]

Returned == skf_out.err = ""

\* the indices whose occupation is positive
PositiveIndices(f) ==
    {TopIndex(f) - (i - 1) : i \in {j \in 1..Len(OccsAtOffset(f)) :
                                       Float(OccsAtOffset(f)[j]) > 0}}

\* the general part of C10: the result is the highest index whose
\* occupation is positive, None if there is none
HighestPositive ==
    Returned =>
        /\ skf_out.none <=> PositiveIndices(skf_in) = {}
        /\ ~skf_out.none =>
               /\ skf_out.l \in PositiveIndices(skf_in)
               /\ \A l \in PositiveIndices(skf_in) : l <= skf_out.l

\* C10 as stated: the highest index with a positive occupation, counted down
\* from 3 or 2, and 1 for the simple-format occupations 2.0 2.0 0.0 0.0.
C10_ExampleGivesOne ==
    /\ HighestPositive
    /\ (Returned /\ skf_in = SimpleSkf(<<"2.0", "2.0", "0.0", "0.0">>))
           => ~skf_out.none /\ skf_out.l = 1

\* C10 as amended: the highest index with a positive occupation, counted
\* down from 3 or 2; the first word at the offset belongs to the highest
\* index, so the occupations 2.0 2.0 0.0 0.0 give 2 in the simple format
\* (and 3 in the extended one), and 0.0 2.0 2.0 give 1.
C10_HighestPositiveIndex ==
    /\ HighestPositive
    /\ (Returned /\ skf_in = SimpleSkf(<<"2.0", "2.0", "0.0", "0.0">>))
           => ~skf_out.none /\ skf_out.l = 2
    /\ (Returned /\ skf_in = ExtendedSkf(<<"2.0", "2.0", "0.0", "0.0">>))
           => ~skf_out.none /\ skf_out.l = 3
    /\ (Returned /\ skf_in = SimpleSkf(<<"0.0", "2.0", "2.0">>))
           => ~skf_out.none /\ skf_out.l = 1

\* C10's case: the call returned for the occupations of the example
C10_Witness ==
    /\ Returned
    /\ skf_in = SimpleSkf(<<"2.0", "2.0", "0.0", "0.0">>)
    /\ ~skf_out.none


-----------------------------------------------------------------------------
(* The calculator: write_input, the external program, read_results *)

\* all of write_dftb_in at once, for the species visited in `order`: the
\* steps of WriteHeader .. WriteTrailer in sequence
RECURSIVE RenderKeys(_, _, _, _)
RenderKeys(ks, prev, ps, pot) ==
    IF ks = <<>> THEN <<>>
    ELSE KeyLines(prev, Head(ks), ps[Head(ks)], pot)
             \o (IF PointChargeFails(ps[Head(ks)], pot) THEN <<>>
                 ELSE RenderKeys(Tail(ks), Head(ks), ps, pot))

\* the document for the keys ks, which are the sorted keys of ps
RenderInOrder(ks, ps, pot) ==
    IF ks = <<>> THEN [err |-> "NameError", doc |-> HeaderLines]
    ELSE IF \E i \in 1..Len(ks) : PointChargeFails(ps[ks[i]], pot)
    THEN [err |-> "TypeError",
          doc |-> HeaderLines \o RenderKeys(ks, <<"dummy", "_">>, ps, pot)]
    ELSE [err |-> "",
          doc |-> HeaderLines \o RenderKeys(ks, <<"dummy", "_">>, ps, pot)
                      \o TrailingCloses(Depth(ks[Len(ks)])) \o TrailerLines]

RenderDoc(ps, pot) == RenderInOrder(SortedKeys(DOMAIN ps), ps, pot)

write_dftb_in(ps, at, files, pot, order) ==
    IF UserGaveAngMom(ps) THEN RenderDoc(ps, pot)
    ELSE IF at = NoAtoms THEN [err |-> "AttributeError", doc |-> HeaderLines]
    ELSE LET r == InferLoop(order, files, ps, {})
         IN  IF r.err # "" THEN [err |-> r.err, doc |-> HeaderLines]
             ELSE RenderDoc(r.params, pot)

\* os.remove(path)
\* a removal that leaves the file where it is
RemoveKeeps(f) == f

Remove(f) == NoFile

\* the structure has at most MaxAtoms atoms
MaxAtoms == 2
\* the external program runs at most MaxRuns times
MaxRuns == 2

Structures == SeqsUpTo({"O"}, MaxAtoms) \ {<<>>}

Called(op, e, wrote) ==
    [op |-> op, err |-> e, wrote |-> wrote, before |-> DOMAIN results]

\* PointChargePotential.write_mmcharges: nothing while the charges are None;
\* else the file is opened for writing and gets one line, the position and
\* the charge, for each pair of zip(mmpositions, mmcharges); zip raises
\* TypeError for positions that are None
write_mmcharges(pot, file) ==
    IF pot.mmcharges = NoList THEN [err |-> "", file |-> file]
    ELSE IF pot.mmpositions = NoList
    THEN [err |-> "TypeError", file |-> SkfFile(<<>>)]
    ELSE LET n == IF Len(pot.mmpositions) < Len(pot.mmcharges)
                  THEN Len(pot.mmpositions) ELSE Len(pot.mmcharges)
         IN  [err |-> "",
              file |-> SkfFile([i \in 1..n |-> <<pot.mmpositions[i], pot.mmcharges[i]>>])]

\* Dftb.write_input(atoms): the input document, the geometry file, then
\* atoms_input and atoms, then the file of the point charges when a
\* potential is attached; an exception of write_dftb_in ends it before
\* anything but the document's file is touched
WriteInput(a) ==
    /\ pc = "idle"
    /\ \E order \in Orders(IF atoms = NoAtoms THEN {} ELSE Symbols(atoms)) :
         LET r == write_dftb_in(parameters, atoms, slako, pcpot, order)
         IN  /\ doc' = r.doc
             /\ IF r.err = ""
                THEN /\ geo_end' = a
                     /\ atoms_input' = a
                     /\ atoms' = NoAtoms
                     /\ IF pcpot.attached
                        THEN /\ charges_dat' = write_mmcharges(pcpot, charges_dat).file
                             /\ call' = Called("write_input",
                                               write_mmcharges(pcpot, charges_dat).err, {})
                        ELSE /\ charges_dat' = charges_dat
                             /\ call' = Called("write_input", "", {})
                ELSE /\ call' = Called("write_input", r.err, {})
                     /\ UNCHANGED <<geo_end, atoms_input, atoms, charges_dat>>
    /\ UNCHANGED <<parameters, pcpot, slako, renderRun, results_tag, detailed_out,
                   lines, results, runs, skfCall, guiState>>


\* ---- what the external program may leave in results.tag

\* a tag line: name, type, rank and shape
Header(tag, dims) ==
    <<tag, ":", "real">>
        \o Concat([i \in 1..Len(dims) |-> <<(IF i <= 2 THEN ":" ELSE ","), dims[i]>>])

ForcesHeader(n) == Header("forces", <<"2", "3", n>>)
StressHeader == Header("stress", <<"2", "3", "3">>)
FermiHeader == Header("fermi_level", <<"1", "2">>)
EigHeader(ncol, nband, nkpt, nspin) == Header("eigenvalues", <<ncol, nband, nkpt, nspin>>)

RowA == <<"1.0", "2.0", "3.0">>
RowB == <<"4.0", "5.0", "6.0">>
RowC == <<"7.0", "8.0", "9.0">>

ForcesGood == <<ForcesHeader("2"), RowA, RowB>>
StressGood == <<StressHeader, RowA, RowB, RowC>>
FermiGood == <<FermiHeader, <<"0.000000000000000E+000", "-0.1234">>>>
EigGood == <<EigHeader("2", "2", "1", "1"), <<"1.0", "2.0">>>>

ForcesSections ==
    { ForcesGood,
      <<ForcesHeader("1"), RowA>>,
      <<>>,                                          \* no marker
      <<ForcesHeader("x"), RowA, RowB>>,             \* the count is no integer
      <<ForcesHeader("3"), RowA, RowB>>,             \* fewer rows than announced
      <<ForcesHeader("2"), RowA, <<"4.0", "5.0">>>>, \* a row of two words
      <<ForcesHeader("2"), RowA, <<"4.0", "x", "6.0">>>> }

StressSections ==
    { StressGood,
      <<>>,
      <<StressHeader, RowA, RowB>>,
      <<StressHeader, RowA, <<"x", "5.0", "6.0">>, RowC>>,
      <<StressHeader, RowA, <<"4.0", "5.0">>, RowC>>,
      <<StressHeader, RowA, RowB, RowC, StressHeader, RowC, RowB, RowA>> }

FermiSections ==
    { FermiGood,
      <<>>,
      <<FermiHeader, <<"2.0", "-0.1234">>>>,
      <<FermiHeader, <<"1e-8", "-1e-8">>>>,
      <<FermiHeader, <<"-0.1234">>>>,                \* a single word
      <<FermiHeader, <<"2.0", "-0.1234", "1.0">>>>,
      <<FermiHeader, <<"x", "-0.1234">>>> }

EigSections ==
    { EigGood,
      <<>>,
      <<EigHeader("2", "3", "2", "1"), <<"1.0", "2.0">>, <<"3.0">>,
                                       <<"4.0", "5.0">>, <<"6.0">>>>,
      <<EigHeader("2", "2", "1", "2"), <<"1.0", "2.0">>, <<"3.0", "4.0">>>>,
      <<EigHeader("2", "x", "1", "1"), <<"1.0", "2.0">>>>,
      <<EigHeader("0", "2", "1", "1"), <<"1.0", "2.0">>>>,
      <<EigHeader("2", "2", "1", "1"), <<"1.0">>>>,      \* one value for two bands
      <<EigHeader("2", "2", "1", "1"), <<"1.0", "x">>>>,
      <<EigHeader("2", "2", "2", "1"), <<"1.0", "2.0">>>>,
      <<EigHeader("2", "3", "2", "2"), <<"1.0", "2.0">>, <<"3.0">>,
                                       <<"4.0", "5.0">>, <<"6.0">>,
                                       <<"7.0", "8.0">>, <<"9.0">>,
                                       <<"1.0", "3.0">>, <<"5.0">>>> }

\* results.tag with its sections in the order given
Tag(sections) == [exists |-> TRUE, lines |-> Concat(sections)]

GoodTag == Tag(<<EigGood, FermiGood, StressGood, ForcesGood>>)

\* the files of the runs of the calculator: the forces section varies, at
\* the end of the file and before the other sections, and the optional
\* sections are there or not
TagFiles ==
    {Tag(<<EigGood, FermiGood, StressGood, f>>) : f \in ForcesSections}
        \cup {Tag(<<<<ForcesHeader("3"), RowA, RowB>>, EigGood, FermiGood, StressGood>>),
              Tag(<<ForcesGood>>),
              Tag(<<StressGood, ForcesGood>>),
              Tag(<<EigGood, StressGood, <<FermiHeader, <<"-0.1234">>>>, ForcesGood>>),
              Tag(<<EigGood, <<StressHeader, RowA, RowB>>, ForcesGood>>) }

\* ---- what it may leave in detailed.out

EnergyLine == <<"Total", "energy:", "-10.123456", "H">>
ChargeHeader == <<"Atom", "Net", "charge">>
ChargeRow1 == <<"1", "1.0">>
ChargeRow2 == <<"2", "2.0">>
\* a line that holds 'Net charge' and not 'Atom'
NetChargeLine == <<"Net", "charge", "0.0">>

Detail(ls) == [exists |-> TRUE, lines |-> ls]

GoodDetail == Detail(<<EnergyLine, ChargeHeader, ChargeRow1, ChargeRow2>>)

DetailFiles ==
    { GoodDetail,
      Detail(<<EnergyLine>>),                              \* no charge header
      Detail(<<ChargeHeader, ChargeRow1, ChargeRow2, EnergyLine>>),
      Detail(<<ChargeHeader, ChargeRow1, ChargeRow2>>),    \* no energy
      Detail(<<EnergyLine, ChargeHeader, ChargeRow1>>),
      Detail(<<EnergyLine, NetChargeLine, ChargeHeader, ChargeRow1, ChargeRow2>>),
      Detail(<<EnergyLine, NetChargeLine, <<"1", "9.0">>, <<"2", "9.0">>,
               ChargeHeader, ChargeRow1, ChargeRow2>>),
      Detail(<<EnergyLine, NetChargeLine>>),
      Detail(<<<<"Total", "energy:">>, ChargeHeader, ChargeRow1, ChargeRow2>>),
      NoFile }

\* one run of the external program leaves one of these pairs
Scenarios ==
    {[tag |-> t, detail |-> GoodDetail] : t \in TagFiles}
        \cup {[tag |-> GoodTag, detail |-> d] : d \in DetailFiles}
        \cup {[tag |-> Tag(<<EigGood, FermiGood, StressGood>>),
               detail |-> Detail(<<EnergyLine>>)]}

\* the external program runs on the input that write_input left
Execute ==
    /\ pc = "idle"
    /\ geo_end # NoAtoms
    /\ runs < MaxRuns
    /\ runs' = runs + 1
    /\ \E sc \in Scenarios :
           /\ results_tag' = sc.tag
           /\ detailed_out' = sc.detail
    /\ call' = Called("run", "", {})
    /\ UNCHANGED <<calcObject, renderRun, doc, atoms_input, geo_end, lines,
                   results, skfCall, guiState, charges_dat>>

\* what a read_results that opened results.tag leaves: r is the progress
\* of ParseSections
ReadInto(r) ==
    /\ results' = r.results
    /\ results_tag' = IF r.removed THEN Remove(results_tag) ELSE results_tag
    /\ call' = Called("read_results", r.err, r.wrote)

\* a read_results without `self.atoms = self.atoms_input`
ReadResultsKeepsAtoms ==
    /\ pc = "idle"
    /\ IF ~results_tag.exists
       THEN /\ call' = Called("read_results", "FileNotFoundError", {})
            /\ UNCHANGED <<atoms, lines, results, results_tag>>
       ELSE /\ lines' = results_tag.lines
            /\ atoms' = atoms
            /\ ReadInto(ParseSections(results_tag.lines, detailed_out, atoms_input,
                                      results))
    /\ UNCHANGED <<parameters, pcpot, slako, renderRun, doc, atoms_input, geo_end,
                   detailed_out, runs, skfCall, guiState, charges_dat>>

\* Dftb.read_results
ReadResults ==
    /\ pc = "idle"
    /\ IF ~results_tag.exists
       THEN \* open() raises before anything is assigned
            /\ call' = Called("read_results", "FileNotFoundError", {})
            /\ UNCHANGED <<atoms, lines, results, results_tag>>
       ELSE /\ lines' = results_tag.lines
            /\ atoms' = atoms_input
            /\ ReadInto(ParseSections(results_tag.lines, detailed_out, atoms_input,
                                      results))
    /\ UNCHANGED <<parameters, pcpot, slako, renderRun, doc, atoms_input, geo_end,
                   detailed_out, runs, skfCall, guiState, charges_dat>>

NextCalc == (\E a \in Structures : WriteInput(a)) \/ Execute \/ ReadResults

\* the parameters of the module's own example, for oxygen
CalcParameters ==
    (<<"Hamiltonian", "_">> :> "DFTB")
        @@ (AngMomPrefix :> "")
        @@ (AngMomPrefix \o <<"O">> :> "\"p\"")

InitCalc ==
    /\ parameters = CalcParameters
    /\ atoms = NoAtoms
    /\ pcpot = NoPcpot
    /\ slako = [x \in {"C", "O"} |-> NoFile]
    /\ InitRun("idle")
    /\ InitFiles
    /\ InitSkfIdle

SpecCalc == InitCalc /\ [][NextCalc]_vars


-----------------------------------------------------------------------------
(* Properties of read_results *)

ReadDone == call.op = "read_results"

ForcesError == "RuntimeError: Problem in reading forces"
FermiError == "RuntimeError: Problem in reading Fermi levels"

\* C3: after a read_results that completed, results.tag is gone, and a
\* read_results that follows it with no run of the program in between fails
\* with FileNotFoundError and leaves the results as they were.
C3_OneShotConsumption ==
    [][ /\ (call'.op = "read_results" /\ call'.err = "") => ~results_tag'.exists
        /\ (ReadDone /\ call.err = "" /\ call'.op = "read_results")
              => /\ call'.err = "FileNotFoundError"
                 /\ call'.wrote = {}
                 /\ results' = results ]_vars

\* C3's case: a read_results that found results.tag consumed by the
\* completed call before it
C3_Witness ==
    /\ ReadDone
    /\ call.err = "FileNotFoundError"
    /\ ~results_tag.exists
    /\ {"energy", "forces"} \subseteq DOMAIN results
    /\ runs >= 1

\* C4 as stated: a read_results that raised has written no entry of the
\* results.
C4_FailedCallWritesNothing ==
    (ReadDone /\ call.err # "") => call.wrote = {}

\* the call got through the detail file and stopped in read_forces
ForcesFailed ==
    /\ ReadDone
    /\ call.err # ""
    /\ "energy" \in call.wrote
    /\ "forces" \notin call.wrote

\* C5 as stated: whatever is wrong with the forces block, read_forces fails
\* with RuntimeError 'Problem in reading forces' and with nothing else.
C5_ForcesErrorIsRuntimeError ==
    ForcesFailed => call.err = ForcesError

\* the charges that follow the first line holding 'Atom' and 'Net charge'
BothWords(line) == Has(line, "Atom") /\ HasPair(line, "Net", "charge")
ChargesAfterHeader(f, natoms) ==
    LET n == FirstIndex({i \in 1..Len(f.lines) : BothWords(f.lines[i])})
        rows == Slice(f.lines, n + 1, n + 1 + natoms)
    IN  [i \in 1..Len(rows) |-> Float(rows[i][Len(rows[i])])]

\* C7 as stated: the charges that read_results stores are the last words of
\* the lines after the first line that holds both 'Atom' and 'Net charge'; a
\* line that holds 'Net charge' alone is passed over.
C7_HeaderNeedsAtom ==
    (ReadDone /\ "charges" \in call.wrote) =>
        /\ FirstIndex({i \in 1..Len(detailed_out.lines) : BothWords(detailed_out.lines[i])}) >= 0
        /\ "charges" \in DOMAIN results
        /\ results["charges"] = ChargesAfterHeader(detailed_out, Len(atoms_input))

\* detailed.out has a 'Total energy:' line with a number and no line with
\* 'Net charge'
EnergyNoCharges(f) ==
    /\ f.exists
    /\ FirstIndex({i \in 1..Len(f.lines) : IsEnergyLine(f.lines[i])}) >= 0
    /\ LET e == Nth(f.lines, FirstIndex({i \in 1..Len(f.lines) : IsEnergyLine(f.lines[i])}))
       IN  Len(e) >= 3 /\ IsFloat(e[3])
    /\ \A i \in 1..Len(f.lines) : ~HasPair(f.lines[i], "Net", "charge")

EnergyOf(f) ==
    Scaled(Float(Nth(f.lines, FirstIndex({i \in 1..Len(f.lines) : IsEnergyLine(f.lines[i])}))[3]), "Hartree")

MaxWords == 3

FermiWords == {"0.000000000000000E+000", "-0.1234", "2.0", "1e-8", "-1e-8", "x"}

\* forces sections with rows of four words and with lines after the last
\* of the announced rows
ForcesLongSections ==
    { <<ForcesHeader("1"), <<"1.0", "2.0", "3.0", "4.0">>, <<"x", "5.0">>>>,
      <<ForcesHeader("2"), RowC, <<"4.0", "5.0", "6.0", "x">>, RowA>>,
      <<ForcesHeader("0"), RowA>> }

\* the optional sections vary: every line of at most MaxWords words after
\* the Fermi marker, or no line at all, and the stress and eigenvalue
\* sections above
SectionFiles ==
    {Tag(<<EigGood, ForcesGood, StressGood, <<FermiHeader, ws>>>>) :
         ws \in SeqsUpTo(FermiWords, MaxWords)}
        \cup {Tag(<<EigGood, ForcesGood, StressGood, <<FermiHeader>>>>)}
        \cup {Tag(<<EigGood, FermiGood, ForcesGood, st>>) : st \in StressSections}
        \cup {Tag(<<FermiGood, ForcesGood, StressGood, ei>>) : ei \in EigSections}
        \cup {Tag(<<f, EigGood, StressGood, FermiGood>>) :
                  f \in ForcesSections \cup ForcesLongSections}

\* detail files with one or two energy lines, with and without the charges
EnergyLine2 == <<"Total", "energy:", "-0.1234", "H">>

EnergyDetails ==
    { Detail(<<EnergyLine, EnergyLine2>>),
      Detail(<<EnergyLine2, EnergyLine>>),
      Detail(<<EnergyLine2, ChargeHeader, ChargeRow1, ChargeRow2, EnergyLine>>),
      Detail(<<ChargeHeader, ChargeRow1, ChargeRow2, EnergyLine, EnergyLine2>>),
      Detail(<<<<"Mermin", "free", "energy:", "2.0", "H">>, EnergyLine2,
               ChargeHeader, ChargeRow1, ChargeRow2>>),
      Detail(<<<<"Mermin", "free", "energy:", "2.0", "H">>, EnergyLine,
               <<"Total", "energy:", "x">>>>) }

\* what one run leaves: a results file of SectionFiles with the good detail
\* file, or the good results file with a detail file of EnergyDetails
TagRuns ==
    {[tag |-> t, detail |-> GoodDetail] : t \in SectionFiles}
        \cup {[tag |-> GoodTag, detail |-> d] : d \in EnergyDetails}

\* the state after write_input for two atoms and one run of the program
InitTag ==
    /\ parameters = CalcParameters
    /\ atoms = NoAtoms
    /\ pcpot = NoPcpot
    /\ slako = [x \in {"C", "O"} |-> NoFile]
    /\ pc = "idle"
    /\ params = <<>>
    /\ todo = <<>>
    /\ previous_key = NoKey
    /\ key = NoKey
    /\ skf_read = {}
    /\ err = ""
    /\ InitSkfIdle
    /\ doc = write_dftb_in(CalcParameters, NoAtoms, slako, NoPcpot, <<>>).doc
    /\ atoms_input = <<"O", "O">>
    /\ geo_end = <<"O", "O">>
    /\ \E run \in TagRuns : results_tag = run.tag /\ detailed_out = run.detail
    /\ lines = NoList
    /\ results = << >>
    /\ call = [op |-> "run", err |-> "", wrote |-> {}, before |-> {}]
    /\ runs = 1

SpecTag == InitTag /\ [][ReadResults]_vars


-----------------------------------------------------------------------------
(* Properties of read_fermi_levels *)

\* read_results got as far as read_fermi_levels
FermiReached ==
    /\ ReadDone
    /\ "forces" \in call.wrote
    /\ read_stress(lines).err = ""

FermiMarker == FirstIndex(LinesWith(lines, "fermi_level"))
HasFermiLine == FermiMarker >= 0 /\ FermiMarker + 1 < Len(lines)
FermiLine == Nth(lines, FermiMarker + 1)
AllNumeric(words) == \A i \in 1..Len(words) : IsFloat(words[i])

\* the words of magnitude above 1e-8, in order, times Hartree
RECURSIVE KeptLevels(_)
KeptLevels(words) ==
    IF words = <<>> THEN <<>>
    ELSE (IF Abs(Float(Head(words))) > Float("1e-8")
          THEN <<Scaled(Float(Head(words)), "Hartree")>> ELSE <<>>)
         \o KeptLevels(Tail(words))

\* C6 as stated: a line of one or two numbers after the marker is read
\* without error and gives the numbers of magnitude above 1e-8, in order.
C6_OneOrTwoTokens ==
    (FermiReached /\ HasFermiLine /\ Len(FermiLine) \in {1, 2}
        /\ AllNumeric(FermiLine))
      => /\ call.err # FermiError
         /\ "fermi_levels" \in call.wrote
         /\ "fermi_levels" \in DOMAIN results
         /\ results["fermi_levels"] = KeptLevels(FermiLine)

\* C6 as amended: a line of exactly two numbers after the marker is read
\* without error and gives the numbers of magnitude above 1e-8, in order, so
\* that (0.0, x) gives x alone; a line of a single number fails with
\* RuntimeError 'Problem in reading Fermi levels' and stores nothing.
C6_ExactlyTwoTokens ==
    /\ (FermiReached /\ HasFermiLine /\ Len(FermiLine) = 2 /\ AllNumeric(FermiLine))
         => /\ call.err # FermiError
            /\ "fermi_levels" \in call.wrote
            /\ "fermi_levels" \in DOMAIN results
         /\ results["fermi_levels"] = KeptLevels(FermiLine)
    /\ (FermiReached /\ HasFermiLine /\ Len(FermiLine) = 1 /\ AllNumeric(FermiLine))
         => /\ call.err = FermiError
            /\ "fermi_levels" \notin call.wrote

\* C6's case: the line (0.0, x) was read and gave x alone
C6_Witness ==
    /\ FermiReached
    /\ HasFermiLine
    /\ FermiLine = <<"0.000000000000000E+000", "-0.1234">>
    /\ call.err = ""
    /\ results["fermi_levels"] = <<Scaled(Float("-0.1234"), "Hartree")>>


-----------------------------------------------------------------------------
(* Properties of the inference and of the closing lines between keys *)

\* the .skf file of x was read to its end and no occupation was positive
NoPositiveOccupation(x) ==
    LET r == read_max_angular_momentum(slako[x])
    IN  r.err = "" /\ r.none

\* C11 as stated: when the file of a species shows no positive occupation,
\* rendering fails with the error 'missing angular momentum data' (for that
\* species and file), and read_max_angular_momentum hands no undefined index
\* to the renderer.
C11_MissingDataError ==
    (pc # "infer" /\ pc # "start" /\ \E x \in skf_read : NoPositiveOccupation(x))
        => /\ pc = "error"
           /\ err = "MissingAngularMomentumData"

\* C12 as stated: when the depth falls from p to c between two keys, the
\* pass of the loop writes p - c closing lines before the key's line, the
\* i-th indented by 3 * (p - i) blanks.
C12_ClosesIndentedByRemainingDepth ==
    [][ (pc = "keys" /\ todo # <<>> /\ Depth(previous_key) > Depth(Head(todo))
            /\ key' = Head(todo))
          => LET p == Depth(previous_key)
                 c == Depth(Head(todo))
             IN  /\ Len(doc') >= Len(doc) + (p - c) + 1
                 /\ \A i \in 1..(p - c) : doc'[Len(doc) + i] = CloseLine(3 * (p - i))
                 /\ doc'[Len(doc) + (p - c) + 1].kind # "close" ]_vars


\* C12 as amended: when the depth falls from p to c between two keys, the
\* pass of the loop writes p - c closing lines before the key's line, the
\* i-th indented by 3 * (p - c - i + 1) blanks: the indentation counts the
\* levels still to close, so the last one stands at 3 blanks whatever c is.
C12_ClosesIndentedByLevelsLeft ==
    [][ (pc = "keys" /\ todo # <<>> /\ Depth(previous_key) > Depth(Head(todo))
            /\ key' = Head(todo))
          => LET p == Depth(previous_key)
                 c == Depth(Head(todo))
             IN  /\ Len(doc') >= Len(doc) + (p - c) + 1
                 /\ \A i \in 1..(p - c) :
                        doc'[Len(doc) + i] = CloseLine(3 * (p - c - i + 1))
                 /\ doc'[Len(doc) + (p - c)] = CloseLine(3)
                 /\ doc'[Len(doc) + (p - c) + 1].kind # "close"
                 /\ doc'[Len(doc) + (p - c) + 1].ind = 3 * c ]_vars

\* C12's case: a key of depth 0 written after a key of depth 2, behind
\* closing lines at 6 and at 3 blanks
C12_Witness ==
    /\ pc = "keys"
    /\ key # NoKey
    /\ Depth(key) = 0
    /\ Len(doc) >= 3
    /\ doc[Len(doc) - 2] = CloseLine(6)
    /\ doc[Len(doc) - 1] = CloseLine(3)
    /\ doc[Len(doc)].kind \in {"block", "assign"}
    /\ doc[Len(doc)].ind = 0



-----------------------------------------------------------------------------
(* The two renderers of the input document, for keys in the order of their
   insertion into the mapping *)

\* the keys of `sorted` with k put before the first key that is not below it
InsertKey(k, sorted) ==
    SelectSeq(sorted, LAMBDA o : StrLess(o, k)) \o <<k>>
        \o SelectSeq(sorted, LAMBDA o : ~StrLess(o, k))

\* a loop that takes the keys in the order of their insertion
KeepOrder(items) == items

\* sorted(params.items()) for the items of a mapping that yields its keys in
\* the order `items`
RECURSIVE SortItems(_)
SortItems(items) ==
    IF items = <<>> THEN <<>>
    ELSE InsertKey(Head(items), SortItems(Tail(items)))

\* params[s + symbol] = ...: the inferred keys enter the mapping after the
\* keys of the user, in the order in which the set yields the symbols
InferredItems(order) == [i \in 1..Len(order) |-> AngMomPrefix \o <<order[i]>>]

Rendered(ps, r) == [err |-> r.err, doc |-> r.doc, params |-> ps]

\* Dftb.write_dftb_in for a mapping that yields its keys in the order `items`
write_dftb_in_items(items, ps, at, files, pot, order) ==
    IF UserGaveAngMom(ps) THEN Rendered(ps, RenderInOrder(SortItems(items), ps, pot))
    ELSE IF at = NoAtoms
    THEN [err |-> "AttributeError", doc |-> HeaderLines, params |-> ps]
    ELSE LET r == InferLoop(order, files, ps, {})
         IN  IF r.err # ""
             THEN [err |-> r.err, doc |-> HeaderLines, params |-> r.params]
             ELSE Rendered(r.params,
                           RenderInOrder(SortItems(items \o InferredItems(order)),
                                         r.params, pot))

\* str(value).upper()
Upper(value) == IF value \in {"Yes", "yes", "YES"} THEN "YES" ELSE value

ReadInitialCharges == <<"Hamiltonian", "_", "ReadInitialCharges">>

\* a key line that keeps the initial-charges value whatever files exist
KeyLineIoKeepsGuess(k, value, found) ==
    LET current_depth == Depth(k)
    IN  IF EndsWithUnderscore(k) /\ (value # "" \/ current_depth > 0)
        THEN Line("block", 3 * current_depth, LastSegment(RStrip(k)), value)
        ELSE IF EndsWithUnderscore(k)
        THEN Line("bare", 3 * current_depth, LastSegment(RStrip(k)), value)
        ELSE IF CountEmpty(k) = 1
        THEN Line("raw", 3 * current_depth, <<>>, value)
        ELSE Line("assign", 3 * current_depth, LastSegment(k), value)

\* the line of one key, prepare_dftb_input; `found` tells whether
\* charges.dat or charges.bin is a file of the directory
KeyLineIo(k, value, found) ==
    LET current_depth == Depth(k)
    IN  IF EndsWithUnderscore(k) /\ value # ""
        THEN Line("block", 3 * current_depth, LastSegment(RStrip(k)), value)
        ELSE IF EndsWithUnderscore(k) /\ current_depth = 0
        THEN Line("bare", 3 * current_depth, LastSegment(RStrip(k)), value)
        ELSE IF EndsWithUnderscore(k)
        THEN Line("block", 3 * current_depth, LastSegment(RStrip(k)), value)
        ELSE IF CountEmpty(k) = 1
        THEN Line("raw", 3 * current_depth, <<>>, value)
        ELSE IF k = ReadInitialCharges /\ Upper(value) = "YES"
        THEN Line("assign", 3 * current_depth, LastSegment(k),
                  IF found THEN value ELSE "No")
        ELSE Line("assign", 3 * current_depth, LastSegment(k), value)

\* if pcpot is not None and ('DFTB' in str(value)), for the value written
PointChargeLinesIo(written, pot) ==
    IF pot.attached /\ ContainsDFTB(written) THEN PointChargeLines(pot) ELSE <<>>

\* one pass of the main loop of prepare_dftb_input
KeyLinesIo(prev, k, ln, pot) ==
    ClosesBetween(Depth(prev), Depth(k)) \o <<ln>> \o PointChargeLinesIo(ln.value, pot)

RECURSIVE RenderKeysIo(_, _, _, _, _)
RenderKeysIo(ks, prev, ps, pot, found) ==
    IF ks = <<>> THEN <<>>
    ELSE KeyLinesIo(prev, Head(ks), KeyLineIo(Head(ks), ps[Head(ks)], found), pot)
             \o (IF PointChargeFails(ps[Head(ks)], pot) THEN <<>>
                 ELSE RenderKeysIo(Tail(ks), Head(ks), ps, pot, found))

\* the trailer of prepare_dftb_input
IoTrailerLines(do_forces) ==
    << Lit(0, "ParserOptions {"),
       Lit(3, "IgnoreUnprocessedNodes = Yes"),
       Lit(0, "}") >>
    \o (IF do_forces
        THEN << Lit(0, "Analysis {"), Lit(3, "CalculateForces = Yes"), Lit(0, "}") >>
        ELSE <<>>)

\* the document of prepare_dftb_input for the keys ks, the sorted keys of ps
RenderIoInOrder(ks, ps, pot, do_forces, found) ==
    IF ks = <<>> THEN [err |-> "NameError", doc |-> HeaderLines]
    ELSE IF \E i \in 1..Len(ks) : PointChargeFails(ps[ks[i]], pot)
    THEN [err |-> "TypeError",
          doc |-> HeaderLines \o RenderKeysIo(ks, <<"dummy", "_">>, ps, pot, found)]
    ELSE [err |-> "",
          doc |-> HeaderLines \o RenderKeysIo(ks, <<"dummy", "_">>, ps, pot, found)
                      \o TrailingCloses(Depth(ks[Len(ks)]))
                      \o IoTrailerLines(do_forces)]

\* prepare_dftb_input for a mapping that yields its keys in the order
\* `items`; 'pcpot' and 'do_forces' are the entries it pops from the mapping
prepare_dftb_input(items, ps, at, files, pot, order, do_forces, found) ==
    IF UserGaveAngMom(ps)
    THEN Rendered(ps, RenderIoInOrder(SortItems(items), ps, pot, do_forces, found))
    ELSE IF at = NoAtoms
    THEN [err |-> "AttributeError", doc |-> HeaderLines, params |-> ps]
    ELSE LET r == InferLoop(order, files, ps, {})
         IN  IF r.err # ""
             THEN [err |-> r.err, doc |-> HeaderLines, params |-> r.params]
             ELSE Rendered(r.params,
                           RenderIoInOrder(SortItems(items \o InferredItems(order)),
                                           r.params, pot, do_forces, found))

\* keys of every form the renderers tell apart
DocKeys ==
    { <<"A", "_">>, <<"A", "_", "A">>, <<"A", "_", "A", "_">>,
      <<"A", "_", "empty">>, <<"A", "_", "empty", "1">>,
      <<"A", "_", "empty", "_">>, <<"A", "_", "empty", "_", "empty", "1">>,
      ReadInitialCharges }

DocValues(k) == IF k = ReadInitialCharges THEN {"Yes", "No"} ELSE {"", "DFTB"}

\* the mapping of the user has at most MaxDocKeys keys
MaxDocKeys == 2

DocParameters ==
    UNION { {ps \in [ks -> {"", "DFTB", "Yes", "No"}] :
                 \A k \in ks : ps[k] \in DocValues(k)} :
            ks \in SubsetsUpTo(DocKeys, MaxDocKeys) }

\* the charge lists given to embed(); None is its default
ChargeLists == {NoList, <<"1.0">>, <<"1.0", "-1.0">>}

\* a calculator for a structure of carbon and oxygen whose .skf files can
\* be read, before any document is written
InitDoc ==
    /\ parameters \in DocParameters
    /\ atoms = <<"C", "O">>
    /\ pcpot = NoPcpot
    /\ slako = [x \in {"C", "O"} |->
                   IF x = "C" THEN SimpleSkf(<<"0.0", "2.0", "2.0">>)
                   ELSE ExtendedSkf(<<"0.0", "0.0", "4.0", "2.0">>)]
    /\ InitRun("ready")
    /\ InitFiles
    /\ InitSkfIdle

\* Dftb.embed(mmcharges)
Embed(mmcharges) ==
    /\ pc = "ready"
    /\ ~pcpot.attached
    /\ pcpot' = [attached |-> TRUE, mmcharges |-> mmcharges, mmpositions |-> NoList]
    /\ UNCHANGED <<parameters, atoms, slako, renderRun, doc, calcFiles, skfCall, guiState, charges_dat>>

Written(at, r, op) ==
    /\ pc' = at
    /\ doc' = r.doc
    /\ err' = r.err
    /\ params' = r.params
    /\ call' = op
    /\ UNCHANGED <<calcObject, todo, previous_key, key, skf_read, atoms_input,
                   geo_end, results_tag, detailed_out, lines, results, runs,
                   skfCall, guiState, charges_dat>>

\* Dftb.write_dftb_in, as one step
RenderCalc ==
    /\ pc = "ready"
    /\ \E items \in Orders(DOMAIN parameters), order \in Orders(Symbols(atoms)) :
           Written("calc",
                   write_dftb_in_items(items, parameters, atoms, slako, pcpot, order),
                   [op |-> "write_dftb_in", do_forces |-> FALSE, found |-> FALSE])

\* prepare_dftb_input, as one step
RenderIo ==
    /\ pc = "ready"
    /\ \E items \in Orders(DOMAIN parameters), order \in Orders(Symbols(atoms)),
          do_forces \in BOOLEAN, found \in BOOLEAN :
           Written("io",
                   prepare_dftb_input(items, parameters, atoms, slako, pcpot, order,
                                      do_forces, found),
                   [op |-> "prepare_dftb_input", do_forces |-> do_forces,
                    found |-> found])

NextDoc == (\E m \in ChargeLists : Embed(m)) \/ RenderCalc \/ RenderIo

SpecDoc == InitDoc /\ [][NextDoc]_vars


-----------------------------------------------------------------------------
(* The forms of the key lines *)

IsKeyLine(ln) == ln.kind \in {"block", "bare", "raw", "assign"}

\* the lines of the keys, in the order in which they were written
KeyLinesOf(d) == SelectSeq(d, IsKeyLine)

DocWritten == pc \in {"calc", "io"} /\ err = ""

\* '_empty' followed by a numeric suffix occurs in the key
EmptyWithNumber(k) ==
    \E i \in 1..(Len(k) - 2) : k[i] = "_" /\ k[i + 1] = "empty" /\ k[i + 2] = "1"

StatedForm(k, value, ln) ==
    /\ (EndsWithUnderscore(k) /\ value # "")
           => ln = Line("block", 3 * Depth(k), LastSegment(RStrip(k)), value)
    /\ (EndsWithUnderscore(k) /\ value = "" /\ Depth(k) = 0)
           => ln = Line("bare", 0, LastSegment(RStrip(k)), value)
    /\ (~EndsWithUnderscore(k) /\ EmptyWithNumber(k))
           => ln = Line("raw", 3 * Depth(k), <<>>, value)
    /\ (~EndsWithUnderscore(k) /\ CountEmpty(k) = 0)
           => ln = Line("assign", 3 * Depth(k), LastSegment(k), value)

\* C13 as stated: each key emits exactly one line; a key ending in '_' with
\* a non-empty value opens the block '<last segment> = <value>{', one with
\* an empty value at depth 0 the bare block '<last segment> {'; a key with
\* '_empty' and a numeric suffix emits the raw value; a key of no such form
\* emits '<last segment> = <value>'.
C13_KeyLineForms ==
    DocWritten =>
        LET ks == SortedKeys(DOMAIN params)
            kl == KeyLinesOf(doc)
        IN  /\ Len(kl) = Len(ks)
            /\ \A i \in 1..Len(ks) : StatedForm(ks[i], params[ks[i]], kl[i])

CodeForm(k, value, ln, renderer, found) ==
    /\ (EndsWithUnderscore(k) /\ (renderer = "calc" \/ value # "" \/ Depth(k) > 0))
           => ln = Line("block", 3 * Depth(k), LastSegment(RStrip(k)), value)
    /\ (EndsWithUnderscore(k) /\ renderer = "io" /\ value = "" /\ Depth(k) = 0)
           => ln = Line("bare", 0, LastSegment(RStrip(k)), value)
    /\ (~EndsWithUnderscore(k) /\ CountEmpty(k) = 1)
           => ln = Line("raw", 3 * Depth(k), <<>>, value)
    /\ (~EndsWithUnderscore(k) /\ CountEmpty(k) # 1)
           => ln = Line("assign", 3 * Depth(k), LastSegment(k),
                        IF /\ renderer = "io" /\ k = ReadInitialCharges
                           /\ value = "Yes" /\ ~found
                        THEN "No" ELSE value)

\* C13 as amended: each key emits exactly one line. A key ending in '_'
\* opens a block: Dftb.write_dftb_in always writes '<last segment> =
\* <value>{', prepare_dftb_input writes the bare '<last segment> {' for an
\* empty value at depth 0 and the '=' form otherwise. Any other key in which
\* '_empty' occurs exactly once emits the raw value, with or without a
\* numeric suffix; every remaining key emits '<last segment> = <value>',
\* where prepare_dftb_input writes 'No' for Hamiltonian_ReadInitialCharges =
\* Yes when neither charges.dat nor charges.bin exists.
C13_KeyLineFormsOfEachRenderer ==
    DocWritten =>
        LET ks == SortedKeys(DOMAIN params)
            kl == KeyLinesOf(doc)
        IN  /\ Len(kl) = Len(ks)
            /\ \A i \in 1..Len(ks) :
                   CodeForm(ks[i], params[ks[i]], kl[i], pc, call.found)

C13_Witness ==
    /\ pc = "io" /\ err = "" /\ ~call.found
    /\ DOMAIN parameters = {<<"A", "_">>, ReadInitialCharges}
    /\ parameters[<<"A", "_">>] = "" /\ parameters[ReadInitialCharges] = "Yes"
    /\ \E i \in 1..Len(doc) : doc[i] = Line("bare", 0, <<"A">>, "")
    /\ \E i \in 1..Len(doc) : doc[i] = Line("assign", 3, <<"ReadInitialCharges">>, "No")

-----------------------------------------------------------------------------
(* The order of the key lines *)

\* C14: the key lines are written in ascending order of the keys, whatever
\* the order in which the keys were inserted and whatever the order in which
\* the set of species is visited: every such order renders the same document.
C14_SortedWhateverTheInsertionOrder ==
    /\ pc = "calc" =>
           \A items \in Orders(DOMAIN parameters), order \in Orders(Symbols(atoms)) :
               write_dftb_in_items(items, parameters, atoms, slako, pcpot, order).doc
                   = doc
    /\ pc = "io" =>
           \A items \in Orders(DOMAIN parameters), order \in Orders(Symbols(atoms)) :
               prepare_dftb_input(items, parameters, atoms, slako, pcpot, order,
                                  call.do_forces, call.found).doc = doc
    /\ DocWritten =>
           LET ks == SortedKeys(DOMAIN params)
               kl == KeyLinesOf(doc)
           IN  /\ Len(kl) = Len(ks)
               /\ \A i \in 1..Len(ks) :
                      /\ kl[i].ind = 3 * Depth(ks[i])
                      /\ kl[i].kind # "raw" => kl[i].name = LastSegment(RStrip(ks[i]))

C14_Witness ==
    /\ pc = "calc" /\ err = ""
    /\ DOMAIN parameters = {<<"A", "_", "A">>, ReadInitialCharges}
    /\ DOMAIN params = DOMAIN parameters
                           \cup {AngMomPrefix \o <<"C">>, AngMomPrefix \o <<"O">>}
    /\ Len(KeyLinesOf(doc)) = 4

-----------------------------------------------------------------------------
(* The point-charge block *)

BlockAt(d, j, pot) ==
    /\ pot.mmcharges # NoList
    /\ j + 7 <= Len(d)
    /\ SubSeq(d, j, j + 7) =
           << Lit(3, "ElectricField = {"),
              Lit(6, "PointCharges = {"),
              Lit(9, "CoordsAndCharges [Angstrom] = DirectRead {"),
              Lit(12, RecordsText(pot)),
              Lit(12, "File = \"dftb_external_charges.dat\""),
              Lit(9, "}"), Lit(6, "}"), Lit(3, "}") >>

\* C15 as stated: the ElectricField/PointCharges block, with Records = the
\* length of the charge list, is written if and only if a potential is
\* attached and a rendered value contains 'DFTB'; it follows that key's line
\* directly and is brace-balanced, and never appears without a potential.
C15_PointChargeBlock ==
    pc \in {"calc", "io"} =>
        /\ \A i \in 1..Len(doc) :
               IsKeyLine(doc[i]) =>
                   ((pcpot.attached /\ ContainsDFTB(doc[i].value))
                        <=> BlockAt(doc, i + 1, pcpot))
        /\ \A i \in 1..Len(doc) :
               doc[i] = Lit(3, "ElectricField = {")
                   => pcpot.attached /\ i > 1 /\ IsKeyLine(doc[i - 1])

-----------------------------------------------------------------------------
(* The trailer *)

\* C16 as stated: every rendered document, of Dftb.write_dftb_in and of
\* prepare_dftb_input, ends after the trailing closing lines with the blocks
\* 'Options { WriteResultsTag = Yes }' and 'ParserOptions {
\* IgnoreUnprocessedNodes = Yes }', in this order.
C16_TwoTrailerBlocks ==
    DocWritten =>
        LET ks == SortedKeys(DOMAIN params)
            d  == Depth(ks[Len(ks)])
            tail == [i \in 1..d |-> CloseLine(3 * (d - i))]
                        \o << Lit(0, "Options {"), Lit(3, "WriteResultsTag = Yes"),
                              Lit(0, "}"), Lit(0, "ParserOptions {"),
                              Lit(3, "IgnoreUnprocessedNodes = Yes"), Lit(0, "}") >>
        IN  /\ Len(doc) >= Len(tail)
            /\ SubSeq(doc, Len(doc) - Len(tail) + 1, Len(doc)) = tail


-----------------------------------------------------------------------------
(* The stress of a results file *)

\* read_results got as far as the stress block
StressReached == ReadDone /\ "forces" \in call.wrote

StressMarker == FirstIndex(LinesWith(lines, "stress"))

\* every line that holds 'stress' is followed by three rows of three numbers
StressBlocksComplete ==
    \A h \in LinesWith(lines, "stress") :
        /\ h + 3 <= Len(lines)
        /\ \A n \in 1..3 : Len(lines[h + n]) = 3 /\ AllNumeric(lines[h + n])

\* the entry of row r, column c of the matrix after the first 'stress' line,
\* negated and scaled
StressEntry(r, c) ==
    Scaled(-Float(Nth(lines, StressMarker + r)[c]), "Hartree/Bohr**3")

\* C17: with a line that holds 'stress', the 'stress' result is the negated
\* and scaled xx, yy, zz, yz, xz, xy of the 3x3 matrix of the three lines
\* after the first such line, also when several lines hold 'stress'; rows
\* (1,2,3), (4,5,6), (7,8,9) give the components 1, 5, 9, 6, 3, 2.
C17_StressVoigtOrder ==
    (StressReached /\ StressMarker >= 0 /\ StressBlocksComplete)
        => /\ "stress" \in call.wrote
           /\ "stress" \in DOMAIN results
           /\ results["stress"] =
                  << StressEntry(1, 1), StressEntry(2, 2), StressEntry(3, 3),
                     StressEntry(2, 3), StressEntry(1, 3), StressEntry(1, 2) >>

C17_Witness ==
    /\ StressReached
    /\ Cardinality(LinesWith(lines, "stress")) = 2
    /\ StressBlocksComplete
    /\ <<Nth(lines, StressMarker + 1), Nth(lines, StressMarker + 2),
         Nth(lines, StressMarker + 3)>> = <<RowA, RowB, RowC>>
    /\ "stress" \in DOMAIN results
    /\ [n \in 1..6 |-> results["stress"][n].x]
           = << -Float("1.0"), -Float("5.0"), -Float("9.0"),
                -Float("6.0"), -Float("3.0"), -Float("2.0") >>

-----------------------------------------------------------------------------
(* The eigenvalues of a results file *)

\* read_results got as far as read_eigenvalues
EigReached ==
    /\ ReadDone
    /\ "forces" \in call.wrote
    /\ read_stress(lines).err = ""
    /\ read_fermi_levels(lines).err = ""

EigMarker == FirstIndex(LinesWith(lines, "eigenvalues"))

EigHeaderOk ==
    /\ EigMarker >= 0
    /\ LET comps == Components(Nth(lines, EigMarker))
       IN  Len(comps) >= 4 /\ \A n \in (Len(comps) - 3)..Len(comps) : IntOk(comps[n])

\* the n-th of the four integers that end the header
EigDim(n) ==
    LET comps == Components(Nth(lines, EigMarker))
    IN  IntOf(comps[Len(comps) - 4 + n])

EigRowsPerKpt ==
    IF EigDim(2) % EigDim(1) = 0 THEN EigDim(2) \div EigDim(1)
    ELSE EigDim(2) \div EigDim(1) + 1

\* the position among the rows after the header, from 0, of row k of
\* k-point j and spin i
EigRow(i, j, k) == (i * EigDim(3) + j) * EigRowsPerKpt + k

EigCells == (0..(EigDim(3) - 1)) \X (0..(EigDim(4) - 1))

\* the tokens of the rows of k-point j and spin i, in order
EigTokens(i, j) ==
    Concat([k \in 1..EigRowsPerKpt |-> lines[EigMarker + 1 + EigRow(i, j, k - 1) + 1]])

\* the block has the rows its header announces
EigWellFormed ==
    /\ EigHeaderOk
    /\ EigDim(1) > 0
    /\ EigMarker + EigDim(4) * EigDim(3) * EigRowsPerKpt < Len(lines)
    /\ \A c \in EigCells :
           /\ AllNumeric(EigTokens(c[2], c[1]))
           /\ Len(EigTokens(c[2], c[1])) = EigDim(2)

\* C19: for a header announcing (ncol, nband, nkpt, nspin) the rows are read
\* spin by spin and, within a spin, k-point by k-point, ceil(nband / ncol)
\* rows each: the values of k-point j and spin i are the tokens of the rows
\* that start at row (i*nkpt + j)*rows_per_kpt after the header; the
\* nspin*nkpt*rows_per_kpt rows are consumed once each, and the result has
\* shape (nkpt, nspin, nband).
C19_EigenvalueLayout ==
    (EigReached /\ EigWellFormed)
        => /\ call.err = ""
           /\ "eigenvalues" \in DOMAIN results
           /\ DOMAIN results["eigenvalues"] = EigCells
           /\ \A c \in EigCells :
                  results["eigenvalues"][c] =
                      [n \in 1..EigDim(2) |->
                          Scaled(Float(EigTokens(c[2], c[1])[n]), "Hartree")]
           /\ {EigRow(c[2], c[1], k) : c \in EigCells, k \in 0..(EigRowsPerKpt - 1)}
                  = 0..(EigDim(4) * EigDim(3) * EigRowsPerKpt - 1)
           /\ \A c, e \in EigCells : \A k, m \in 0..(EigRowsPerKpt - 1) :
                  EigRow(c[2], c[1], k) = EigRow(e[2], e[1], m) => c = e /\ k = m

C19_Witness ==
    /\ EigReached /\ EigWellFormed
    /\ <<EigDim(1), EigDim(2), EigDim(3), EigDim(4)>> = <<2, 3, 2, 2>>
    /\ "eigenvalues" \in DOMAIN results
    /\ results["eigenvalues"][<<1, 0>>]
           = [n \in 1..3 |-> Scaled(Float(<<"4.0", "5.0", "6.0">>[n]), "Hartree")]
    /\ results["eigenvalues"][<<0, 1>>]
           = [n \in 1..3 |-> Scaled(Float(<<"7.0", "8.0", "9.0">>[n]), "Hartree")]

\* C20 as stated: a block that is announced by its marker line and is
\* malformed (no four trailing integers in the header, too few rows, a token
\* that is no number, a k-point whose rows do not hold nband values) makes
\* read_eigenvalues raise RuntimeError 'Problem in reading eigenvalues', and
\* no other error.
C20_OnlyTheEigenvalueError ==
    (EigReached /\ EigMarker >= 0 /\ ~EigWellFormed)
        => call.err = "RuntimeError: Problem in reading eigenvalues"


-----------------------------------------------------------------------------
(* Results files without the optional sections *)

OptionalResults == {"stress", "eigenvalues", "fermi_levels"}

NoOptionalMarker(ls) ==
    /\ LinesWith(ls, "stress") = {}
    /\ LinesWith(ls, "fermi_level") = {}
    /\ LinesWith(ls, "eigenvalues") = {}

-----------------------------------------------------------------------------
(* The forces of a results file *)

\* read_results got as far as read_forces
ForcesReached == ReadDone /\ "energy" \in call.wrote

ForcesMarker == FirstIndex(LinesWith(lines, "forces"))

\* the words after the last ':' or ',' of the marker line
ForcesCount ==
    LET comps == Components(Nth(lines, ForcesMarker))
    IN  comps[Len(comps)]

\* the announced rows are there, each with three numbers in front
ForcesRowsComplete ==
    /\ ForcesMarker >= 0
    /\ IntOk(ForcesCount)
    /\ ForcesMarker + 1 + IntOf(ForcesCount) <= Len(lines)
    /\ \A k \in 1..IntOf(ForcesCount) :
           /\ Len(lines[ForcesMarker + 1 + k]) >= 3
           /\ \A c \in 1..3 : IsFloat(lines[ForcesMarker + 1 + k][c])

\* C21: the forces have exactly n rows, n the integer that ends the first
\* line with the forces marker; row k holds the first three tokens of the
\* k-th line after the marker line, and no line after the n-th is read.
C21_ForcesRows ==
    (ForcesReached /\ ForcesRowsComplete)
        => /\ "forces" \in call.wrote
           /\ "forces" \in DOMAIN results
           /\ Len(results["forces"]) = IntOf(ForcesCount)
           /\ \A k \in 1..IntOf(ForcesCount) :
                  results["forces"][k] =
                      [c \in 1..3 |->
                          Scaled(Float(lines[ForcesMarker + 1 + k][c]), "Hartree/Bohr")]

\* one row announced, of four words, and a line that is no number after it
C21_Witness ==
    /\ ForcesReached
    /\ ForcesRowsComplete
    /\ IntOf(ForcesCount) = 1
    /\ lines[ForcesMarker + 2] = <<"1.0", "2.0", "3.0", "4.0">>
    /\ lines[ForcesMarker + 3] = <<"x", "5.0">>
    /\ "forces" \in DOMAIN results
    /\ Len(results["forces"]) = 1
    /\ Len(results["forces"][1]) = 3


-----------------------------------------------------------------------------
(* The energy of a detail file *)

EnergyIndexes(f) == {i \in 1..Len(f.lines) : IsEnergyLine(f.lines[i])}

\* the first line of the file that begins with 'Total energy:'
FirstEnergyLine(f) ==
    f.lines[CHOOSE i \in EnergyIndexes(f) : \A j \in EnergyIndexes(f) : i <= j]

\* C22: the energy is the third token of the first line of the detail file
\* that begins with 'Total energy:'; a later such line does not change it,
\* and a charge header before or after it, or none, makes no difference.
C22_EnergyOfFirstLine ==
    (ReadDone /\ "energy" \in call.wrote)
        => /\ EnergyIndexes(detailed_out) # {}
           /\ Len(FirstEnergyLine(detailed_out)) >= 3
           /\ "energy" \in DOMAIN results
           /\ results["energy"]
                  = Scaled(Float(FirstEnergyLine(detailed_out)[3]), "Hartree")

\* two energy lines after the charges
C22_Witness ==
    /\ ReadDone /\ "energy" \in call.wrote
    /\ Cardinality(EnergyIndexes(detailed_out)) = 2
    /\ \E i \in 1..Len(detailed_out.lines) : IsChargeHeader(detailed_out.lines[i])
    /\ FirstEnergyLine(detailed_out) = EnergyLine
    /\ detailed_out.lines[Len(detailed_out.lines)] = EnergyLine2
    /\ results["energy"] = Scaled(Float("-10.123456"), "Hartree")

C22_WitnessNoCharges ==
    /\ ReadDone /\ "energy" \in call.wrote
    /\ Cardinality(EnergyIndexes(detailed_out)) = 2
    /\ \A i \in 1..Len(detailed_out.lines) : ~IsChargeHeader(detailed_out.lines[i])
    /\ FirstEnergyLine(detailed_out) = EnergyLine2
    /\ results["energy"] = Scaled(Float("-0.1234"), "Hartree")


-----------------------------------------------------------------------------
(* read_charges_energy_dipole of the io module *)

\* ('Atom' and 'Charge' in line) is Python's `'Atom' and ('Charge' in line)`
IsIoChargeHeader(line) == Has(line, "Charge")

\* 'Dipole moment:' in line and 'au' in line
IsDipoleLine(line) == HasPair(line, "Dipole", "moment:") /\ Has(line, "au")

\* words[-4:-1]
LastFourButOne(words) ==
    SubSeq(words, IF Len(words) > 4 THEN Len(words) - 3 ELSE 1, Len(words) - 1)

\* the loop over the dipole lines: every such line is converted, the last
\* one stays; float() raises ValueError on the first word that is no number
DipoleOf(ls) ==
    LET hits == {i \in 1..Len(ls) : IsDipoleLine(ls[i])}
        bad  == {i \in hits : ~AllNumeric(LastFourButOne(ls[i]))}
    IN  IF bad # {} THEN Raise("ValueError")
        ELSE IF hits = {} THEN [err |-> "", none |-> TRUE, val |-> <<>>]
        ELSE LET w == LastFourButOne(ls[CHOOSE i \in hits : \A j \in hits : j <= i])
             IN  Ok([k \in 1..Len(w) |-> Scaled(Float(w[k]), "Bohr")])

IoResult(charges_none, charges, energy, dipole) ==
    Ok([charges_none |-> charges_none, charges |-> charges, energy |-> energy,
        dipole_none |-> dipole.none, dipole |-> dipole.val])

\* read_charges_energy_dipole() on detailed.out. The names `directory` and
\* `self` are free in the function and bound nowhere in the module: `bound`
\* tells whether the caller has put them among the module's globals, with
\* self.atoms = at
read_charges_energy_dipole(f, at, bound) ==
    IF ~bound THEN Raise("NameError")
    ELSE IF ~f.exists THEN Raise("FileNotFoundError")
    ELSE
    LET ls     == f.lines
        eline  == FirstIndex({i \in 1..Len(ls) : IsEnergyLine(ls[i])})
        n      == FirstIndex({i \in 1..Len(ls) : IsIoChargeHeader(ls[i])})
    IN  IF eline >= 0 /\ Len(Nth(ls, eline)) < 3 THEN Raise("IndexError")
        ELSE IF eline >= 0 /\ ~IsFloat(Nth(ls, eline)[3]) THEN Raise("ValueError")
        ELSE IF n < 0
        THEN IF eline < 0 THEN Raise("UnboundLocalError")
             \* return None, energy, None
             ELSE IoResult(TRUE, <<>>, Scaled(Float(Nth(ls, eline)[3]), "Hartree"),
                           [err |-> "", none |-> TRUE, val |-> <<>>])
        ELSE IF at = NoAtoms THEN Raise("TypeError")
        ELSE
        LET chargestart == n + 1
            lines1 == Slice(ls, chargestart, chargestart + Len(at))
            bad    == {i \in 1..Len(lines1) :
                          lines1[i] = <<>> \/ ~IsFloat(lines1[i][Len(lines1[i])])}
        IN  IF bad # {}
            THEN LET i == CHOOSE i \in bad : \A j \in bad : i <= j
                 IN  IF lines1[i] = <<>> THEN Raise("IndexError") ELSE Raise("ValueError")
            ELSE IF DipoleOf(ls).err # "" THEN Raise(DipoleOf(ls).err)
            ELSE IF eline < 0 THEN Raise("UnboundLocalError")
            ELSE IoResult(FALSE,
                          [i \in 1..Len(lines1) |-> Float(lines1[i][Len(lines1[i])])],
                          Scaled(Float(Nth(ls, eline)[3]), "Hartree"),
                          DipoleOf(ls))

IoChargeHeader == <<"Atom", "Charge">>

DipoleWords == {"1.0", "2.0", "x"}

\* 'Dipole moment:', up to MaxWords words and the unit
DipoleLines ==
    {<<"Dipole", "moment:">> \o ws \o <<u>> :
         ws \in SeqsUpTo(DipoleWords, MaxWords), u \in {"au", "Debye"}}

\* detail files with or without the energy, with or without the charges,
\* and with one dipole line, two, or none
DipoleDetails ==
    {Detail(e \o h \o <<d>>) :
         e \in {<<EnergyLine>>, <<>>},
         h \in {<<>>, <<IoChargeHeader, ChargeRow1, ChargeRow2>>},
         d \in DipoleLines}
        \cup {Detail(<<EnergyLine>> \o h \o d) :
                  h \in {<<>>, <<IoChargeHeader, ChargeRow1, ChargeRow2>>,
                         <<IoChargeHeader, ChargeRow1>>},
                  d \in {<<>>,
                         << <<"Dipole", "moment:", "1.0", "2.0", "1.0", "au">>,
                            <<"Dipole", "moment:", "2.0", "2.0", "1.0", "au">> >>} }
        \cup {NoFile}

NoIoCall == [op |-> "none", err |-> "", bound |-> FALSE]

\* a detail file in the directory and two atoms
InitDipole ==
    /\ parameters = CalcParameters
    /\ atoms = <<"O", "O">>
    /\ pcpot = NoPcpot
    /\ slako = [x \in {"C", "O"} |-> NoFile]
    /\ InitRun("idle")
    /\ doc = <<>>
    /\ InitSkfIdle
    /\ atoms_input = NoAtoms
    /\ geo_end = NoAtoms
    /\ results_tag = NoFile
    /\ detailed_out \in DipoleDetails
    /\ lines = NoList
    /\ results = << >>
    /\ call = NoIoCall
    /\ runs = 0

\* one call of read_charges_energy_dipole; results holds what it returned
ReadChargesEnergyDipole ==
    /\ call.op = "none"
    /\ \E bound \in BOOLEAN :
           LET r == read_charges_energy_dipole(detailed_out, atoms, bound)
           IN  /\ results' = r.val
               /\ call' = [op |-> "read_charges_energy_dipole", err |-> r.err,
                           bound |-> bound]
    /\ UNCHANGED <<calcObject, renderRun, doc, atoms_input, geo_end, results_tag,
                   detailed_out, lines, runs, skfCall, guiState, charges_dat>>

SpecDipole == InitDipole /\ [][ReadChargesEnergyDipole]_vars

DipoleIndexes(f) == {i \in 1..Len(f.lines) : IsDipoleLine(f.lines[i])}

\* the file can be read up to its one dipole line: an energy line, the
\* charges of the atoms or no charge header, and three numbers before the
\* last word of the dipole line
DipoleReadable(f) ==
    /\ f.exists
    /\ EnergyIndexes(f) # {}
    /\ Len(FirstEnergyLine(f)) >= 3 /\ IsFloat(FirstEnergyLine(f)[3])
    /\ \/ \A i \in 1..Len(f.lines) : ~IsIoChargeHeader(f.lines[i])
       \/ \E i \in 1..Len(f.lines) :
              /\ f.lines[i] = IoChargeHeader
              /\ i + 2 <= Len(f.lines)
              /\ f.lines[i + 1] = ChargeRow1 /\ f.lines[i + 2] = ChargeRow2
    /\ Cardinality(DipoleIndexes(f)) = 1
    /\ \A i \in DipoleIndexes(f) :
           /\ Len(f.lines[i]) >= 6
           /\ \A k \in 1..3 : IsFloat(f.lines[i][Len(f.lines[i]) - k])

\* C23 as stated: whenever the detail file has a line with 'Dipole moment:'
\* and 'au', read_charges_energy_dipole returns the three components that
\* are the last four tokens of that line without the final one, also when
\* the file has no charge header and the charges are None.
C23_DipoleIndependentOfCharges ==
    (call.op = "read_charges_energy_dipole" /\ call.bound
         /\ DipoleReadable(detailed_out))
        => /\ call.err = ""
           /\ ~results.dipole_none
           /\ \A i \in DipoleIndexes(detailed_out) :
                  results.dipole =
                      [k \in 1..3 |->
                          Scaled(Float(detailed_out.lines[i][Len(detailed_out.lines[i]) - 4 + k]),
                                 "Bohr")]


-----------------------------------------------------------------------------
(* The results file after a read_results that raised *)

-----------------------------------------------------------------------------
(* atoms and atoms_input between write_input and read_results *)

\* the lines after the first charge header of the detail file
RowsAfterChargeHeader(f) ==
    LET n == FirstIndex({i \in 1..Len(f.lines) : IsChargeHeader(f.lines[i])})
    IN  Len(f.lines) - (n + 1)

\* C25 as stated: after write_input(a) and until the next read_results
\* starts, atoms is None and atoms_input is a; once read_results has been
\* entered, atoms is the structure of the most recent write_input, and the
\* charges are read for its number of atoms.
C25_AtomsOnceEntered ==
    /\ (call.op = "write_input" /\ atoms_input # NoAtoms)
           => atoms = NoAtoms /\ atoms_input = geo_end
    /\ (ReadDone /\ atoms_input # NoAtoms) => atoms = atoms_input

\* C25 as amended: after write_input(a) and until the next read_results
\* starts, atoms is None and atoms_input is a. A read_results that opened
\* results.tag has set atoms to the structure of the most recent write_input,
\* and reads the charges from as many lines after the charge header as that
\* structure has atoms (fewer if the file ends before); a read_results that
\* could not open results.tag leaves atoms as it was.
C25_AtomsOnceFileOpened ==
    [][ /\ (call'.op = "write_input" /\ atoms_input' # NoAtoms)
            => atoms' = NoAtoms /\ atoms_input' = geo_end'
        /\ call'.op = "run" => atoms' = atoms /\ atoms_input' = atoms_input
        /\ (call'.op = "read_results" /\ results_tag.exists)
            => /\ atoms' = atoms_input /\ atoms_input' = atoms_input
               /\ ("charges" \in call'.wrote /\ "charges" \in DOMAIN results')
                      => \/ Len(results'["charges"]) = Len(atoms_input)
                         \/ /\ Len(results'["charges"]) < Len(atoms_input)
                            /\ Len(results'["charges"])
                                   = RowsAfterChargeHeader(detailed_out)
        /\ (call'.op = "read_results" /\ ~results_tag.exists)
            => atoms' = atoms /\ atoms_input' = atoms_input ]_vars

\* a write_input for one atom after a round for two atoms, and then a
\* read_results that opened the file
C25_Witness ==
    /\ ReadDone
    /\ call.err = ""
    /\ runs = 2
    /\ atoms = <<"O">>
    /\ atoms_input = <<"O">>
    /\ "charges" \in call.wrote
    /\ Len(results["charges"]) = 1


-----------------------------------------------------------------------------
(* Dftb.check_state *)

\* the names FileIOCalculator.check_state may report
AllChanges == {"positions", "numbers", "cell", "pbc"}

\* what FileIOCalculator.check_state returns: a list that names a change at
\* most once
BaseChanges == UNION {Orders(S) : S \in SUBSET AllChanges}

\* list.remove(x): the list without the first x
RemoveFirst(list, x) ==
    LET hits == {i \in 1..Len(list) : list[i] = x}
    IN  IF hits = {} THEN list
        ELSE LET first == CHOOSE i \in hits : \A j \in hits : i <= j
             IN  SubSeq(list, 1, first - 1) \o SubSeq(list, first + 1, Len(list))

\* a check that returns what the base class found
check_state_of_base(base, pbc, pot) == base

\* Dftb.check_state for the list `base` of the base class, the periodic
\* directions pbc of the structure and the potential of the calculator
check_state(base, pbc, pot) ==
    LET system_changes ==
            IF (\A i \in 1..3 : ~pbc[i]) /\ (\E i \in 1..Len(base) : base[i] = "cell")
            THEN RemoveFirst(base, "cell") ELSE base
    IN  IF pot.attached /\ pot.mmpositions # NoList
        THEN Append(system_changes, "positions")
        ELSE system_changes

\* a calculator with or without a potential, before check_state is called
\* for a structure with periodic directions pbc
InitState ==
    /\ parameters = CalcParameters
    /\ atoms = <<"O", "O">>
    /\ pcpot \in {NoPcpot,
                  [attached |-> TRUE, mmcharges |-> <<"1.0">>, mmpositions |-> NoList]}
    /\ slako = [x \in {"C", "O"} |-> NoFile]
    /\ InitRun("idle")
    /\ doc = <<>>
    /\ InitSkfIdle
    /\ atoms_input = NoAtoms
    /\ geo_end = NoAtoms
    /\ results_tag = NoFile
    /\ detailed_out = NoFile
    /\ lines = NoList
    /\ results = << >>
    /\ \E base \in BaseChanges, pbc \in [1..3 -> BOOLEAN] :
           call = [op |-> "none", base |-> base, pbc |-> pbc, system_changes |-> <<>>]
    /\ runs = 0

\* PointChargePotential.set_positions(mmpositions)
SetPositions(mmpositions) ==
    /\ pcpot.attached
    /\ pcpot.mmpositions # mmpositions
    /\ pcpot' = [pcpot EXCEPT !.mmpositions = mmpositions]
    /\ UNCHANGED <<parameters, atoms, slako, renderRun, doc, calcFiles, skfCall, guiState, charges_dat>>

\* Dftb.check_state(atoms)
CheckState ==
    /\ call.op = "none"
    /\ call' = [call EXCEPT !.op = "check_state",
                            !.system_changes = check_state(call.base, call.pbc, pcpot)]
    /\ UNCHANGED <<calcObject, renderRun, doc, atoms_input, geo_end, results_tag,
                   detailed_out, lines, results, runs, skfCall, guiState, charges_dat>>

NextState == (call.op = "none" /\ SetPositions(<<"r1">>)) \/ CheckState

SpecState == InitState /\ [][NextState]_vars

Reports(name) ==
    \E i \in 1..Len(call.system_changes) : call.system_changes[i] = name

\* C26: check_state never reports 'cell' for a structure with no periodic
\* direction, and always reports 'positions' when a potential with positions
\* set is attached, whatever the base class found.
C26_CellAndPositions ==
    call.op = "check_state"
        => /\ (\A i \in 1..3 : ~call.pbc[i]) => ~Reports("cell")
           /\ (pcpot.attached /\ pcpot.mmpositions # NoList) => Reports("positions")

\* no periodic direction, a base list with 'cell' and without 'positions',
\* and a potential with positions
C26_Witness ==
    /\ call.op = "check_state"
    /\ \A i \in 1..3 : ~call.pbc[i]
    /\ call.base = <<"cell", "numbers">>
    /\ pcpot.attached /\ pcpot.mmpositions # NoList
    /\ call.system_changes = <<"numbers", "positions">>


-----------------------------------------------------------------------------
(* The k-points of the constructor *)

\* a calculator has at most MaxKpts k-points
MaxKpts == 2

\* initkey = 'Hamiltonian_KPointsAndWeights'
initkey == <<"Hamiltonian", "_", "KPointsAndWeights">>

\* '%09d' % i
IndexText(i) ==
    CASE i = 0 -> "000000000"
      [] i = 1 -> "000000001"
      [] i = 2 -> "000000002"
      [] OTHER -> "000000003"

\* a key that does not name the row
RowKeyWithoutIndex(i) == initkey \o <<"_", "empty">>

\* key = initkey + '_empty%09d' % i
RowKey(i) == initkey \o <<"_", "empty", IndexText(i)>>

\* c_str for the row whose coordinates print as c
RowText(kpts, c) == IF kpts = "dict" THEN "1 " \o c ELSE c \o " 1.0"

\* the loop of the constructor over kpts_coord[from..]
RECURSIVE SetRows(_, _, _, _)
SetRows(ps, kpts, kpts_coord, i) ==
    IF i >= Len(kpts_coord) THEN ps
    ELSE SetRows((RowKey(i) :> RowText(kpts, kpts_coord[i + 1])) @@ ps,
                 kpts, kpts_coord, i + 1)

\* the parameters after the constructor's k-point part
kpts_parameters(ps, kpts, kpts_coord) ==
    IF kpts = "None" THEN ps
    ELSE SetRows((initkey \o <<"_">> :> (IF kpts = "dict" THEN "Klines " ELSE ""))
                     @@ ps,
                 kpts, kpts_coord, 0)

\* str() of the three coordinates of a k-point, joined by blanks
CoordTexts == {"0.0 0.0 0.0", "0.5 0.0 0.0"}

\* keyword arguments of the user, in and outside the k-point block
KptsKwargs ==
    { initkey \o <<"_">>, initkey \o <<"_", "A">>, initkey \o <<"_", "empty">>,
      <<"Hamiltonian", "_", "A">> }

\* a key the user gave inside the k-point block
InKptsBlock(k) == IsPrefix(initkey \o <<"_">>, k) /\ k # initkey \o <<"_">>

\* the constructor after FileIOCalculator.__init__ has merged the keyword
\* arguments into the parameters: kpts is None, a mesh or a band-path dict
InitKpts ==
    /\ atoms = <<"O", "O">>
    /\ pcpot = NoPcpot
    /\ slako = [x \in {"C", "O"} |-> NoFile]
    /\ InitRun("init")
    /\ doc = <<>>
    /\ InitSkfIdle
    /\ atoms_input = NoAtoms
    /\ geo_end = NoAtoms
    /\ results_tag = NoFile
    /\ detailed_out = NoFile
    /\ lines = NoList
    /\ results = << >>
    /\ runs = 0
    /\ \E kwargs \in SUBSET KptsKwargs, kpts \in {"None", "mesh", "dict"},
          kpts_coord \in SeqsUpTo(CoordTexts, MaxKpts) \ {<<>>} :
           /\ parameters = [k \in kwargs |-> "x"] @@ CalcParameters
           /\ kpts = "None" => kpts_coord = <<"0.0 0.0 0.0">>
           /\ call = [op |-> "__init__", kwargs |-> kwargs, kpts |-> kpts,
                      kpts_coord |-> kpts_coord]

\* Dftb.__init__, from 'kpoint stuff by ase' on
SetKpts ==
    /\ pc = "init"
    /\ parameters' = kpts_parameters(parameters, call.kpts, call.kpts_coord)
    /\ pc' = "ready"
    /\ UNCHANGED <<atoms, pcpot, slako, params, todo, previous_key, key, skf_read,
                   err, doc, calcFiles, skfCall, guiState, charges_dat>>

\* Dftb.embed(mmcharges) of the constructed calculator
EmbedKpts ==
    /\ pc = "ready"
    /\ ~pcpot.attached
    /\ pcpot' = [attached |-> TRUE, mmcharges |-> <<"1.0">>, mmpositions |-> NoList]
    /\ UNCHANGED <<parameters, atoms, slako, renderRun, doc, calcFiles, skfCall, guiState, charges_dat>>

\* Dftb.write_dftb_in of the constructed calculator
WriteKpts ==
    /\ pc = "ready"
    /\ LET r == write_dftb_in(parameters, atoms, slako, pcpot, <<"O">>)
       IN  /\ pc' = "calc"
           /\ doc' = r.doc
           /\ err' = r.err
    /\ call' = [call EXCEPT !.op = "write_dftb_in"]
    /\ UNCHANGED <<calcObject, params, todo, previous_key, key, skf_read,
                   atoms_input, geo_end, results_tag, detailed_out, lines, results,
                   runs, skfCall, guiState, charges_dat>>

NextKpts == SetKpts \/ EmbedKpts \/ WriteKpts

SpecKpts == InitKpts /\ [][NextKpts]_vars

KptsWritten == pc = "calc" /\ err = "" /\ call.kpts # "None"

\* the lines of the document at which the k-point block opens
OpenerAt ==
    {j \in 1..Len(doc) :
         doc[j] = Line("block", 3, <<"KPointsAndWeights">>,
                       IF call.kpts = "dict" THEN "Klines " ELSE "")}

\* the rows of kpts_coord are the lines j+1, j+2, ... of the document
RowsFrom(j) ==
    /\ j + Len(call.kpts_coord) <= Len(doc)
    /\ \A i \in 1..Len(call.kpts_coord) :
           doc[j + i] = Line("raw", 6, <<>>, RowText(call.kpts, call.kpts_coord[i]))

\* the keys the constructor adds are in the parameters
KptsKeysAdded ==
    /\ initkey \o <<"_">> \in DOMAIN parameters
    /\ \A i \in 0..(Len(call.kpts_coord) - 1) : RowKey(i) \in DOMAIN parameters
    /\ Cardinality({k \in DOMAIN parameters :
                        InKptsBlock(k) /\ k \notin call.kwargs})
           = Len(call.kpts_coord)

-----------------------------------------------------------------------------
(* The file of the point charges *)

\* the positions given to set_positions(): each stands for a row x, y, z
PositionLists == SeqsUpTo({"r1"}, MaxAtoms)

\* Dftb.embed(mmcharges) between two calls of write_input
EmbedIdle(mmcharges) ==
    /\ pc = "idle"
    /\ pcpot # [attached |-> TRUE, mmcharges |-> mmcharges, mmpositions |-> NoList]
    /\ pcpot' = [attached |-> TRUE, mmcharges |-> mmcharges, mmpositions |-> NoList]
    /\ UNCHANGED <<parameters, atoms, slako, renderRun, doc, calcFiles, skfCall, guiState,
                   charges_dat>>

NextCharges ==
    \/ \E m \in ChargeLists : EmbedIdle(m)
    \/ \E p \in PositionLists : SetPositions(p)
    \/ \E a \in Structures : WriteInput(a)

SpecCharges == InitCalc /\ [][NextCharges]_vars

\* the line 'Records = n' of the input document
RecordsLine(n) ==
    Lit(12, RecordsText([attached |-> TRUE, mmcharges |-> [i \in 1..n |-> "1.0"],
                         mmpositions |-> NoList]))

\* write_input has written the document with its 'Records' line and the
\* file of the charges
WroteBoth(n) ==
    /\ call.op = "write_input"
    /\ call.err = ""
    /\ charges_dat.exists
    /\ \E j \in 1..Len(doc) : doc[j] = RecordsLine(n)

\* C28: whenever write_input writes the document and the file of the
\* charges, the file has as many lines as the document's 'Records' says,
\* whatever the lengths of the lists of charges and of positions.
C28_LinesEqualRecords ==
    \A n \in 0..(MaxAtoms + 1) : WroteBoth(n) => Len(charges_dat.lines) = n


-----------------------------------------------------------------------------
(* Siesta.species *)

\* the species list of the parameters has at most MaxSpecies entries
MaxSpecies == 2

\* Specie(symbol, tag): tag_none is 'tag is None'
Specie(symbol, tag_none, tag) == [symbol |-> symbol, tag_none |-> tag_none, tag |-> tag]

IsDefault(s) == s.tag_none
IsTagged(s) == ~s.tag_none

\* the loop that adds a default species for each symbol that has none
RECURSIVE AddDefaults(_, _)
AddDefaults(default_species, symbols) ==
    IF symbols = <<>> THEN default_species
    ELSE IF \E k \in 1..Len(default_species) : default_species[k].symbol = Head(symbols)
    THEN AddDefaults(default_species, Tail(symbols))
    ELSE AddDefaults(Append(default_species, Specie(Head(symbols), TRUE, 0)),
                     Tail(symbols))

\* the loop over the default species: species_numbers[mask] = i; i += 1
NumberDefaults(ats, default_species) ==
    [a \in 1..Len(ats) |->
        MaxOf({k \in 1..Len(default_species) : default_species[k].symbol = ats[a].symbol})]

Matches(specie, atom) == atom.tag = specie.tag /\ atom.symbol = specie.symbol

\* the loop over the tagged species: a species that matches some atom gives
\* them the number i and moves i on
RECURSIVE NumberTagged(_, _, _, _)
NumberTagged(ats, non_default_species, species_numbers, i) ==
    IF non_default_species = <<>> THEN species_numbers
    ELSE IF \E a \in 1..Len(ats) : Matches(Head(non_default_species), ats[a])
    THEN NumberTagged(ats, Tail(non_default_species),
                      [a \in 1..Len(ats) |->
                          IF Matches(Head(non_default_species), ats[a]) THEN i
                          ELSE species_numbers[a]],
                      i + 1)
    ELSE NumberTagged(ats, Tail(non_default_species), species_numbers, i)

\* Siesta.species(atoms) for the species list of the parameters
species(ats, species_list) ==
    LET default_species ==
            AddDefaults(SelectSeq(species_list, IsDefault),
                        [a \in 1..Len(ats) |-> ats[a].symbol])
        non_default_species == SelectSeq(species_list, IsTagged)
    IN  IF Len(default_species) # Cardinality({ats[a].symbol : a \in 1..Len(ats)})
        THEN [err |-> "AssertionError", all_species |-> <<>>, species_numbers |-> <<>>]
        ELSE [err |-> "",
              all_species |-> default_species \o non_default_species,
              species_numbers |->
                  NumberTagged(ats, non_default_species,
                               NumberDefaults(ats, default_species),
                               Len(default_species) + 1)]

\* atoms of carbon and oxygen with the tags 0 and 1
TaggedAtoms ==
    SeqsUpTo({[symbol |-> x, tag |-> t] : x \in {"C", "O"}, t \in {0, 1}}, MaxAtoms)
        \ {<<>>}

\* the species lists a user may give
SpeciesLists ==
    SeqsUpTo({Specie(x, TRUE, 0) : x \in {"C", "O"}}
                 \cup {Specie(x, FALSE, t) : x \in {"C", "O"}, t \in {0, 1}},
             MaxSpecies)

\* a Siesta calculator with a species list, before species(atoms) is called
InitSpecies ==
    /\ parameters \in {[species |-> l] : l \in SpeciesLists}
    /\ atoms \in TaggedAtoms
    /\ pcpot = NoPcpot
    /\ slako = [x \in {"C", "O"} |-> NoFile]
    /\ InitRun("idle")
    /\ doc = <<>>
    /\ InitSkfIdle
    /\ atoms_input = NoAtoms
    /\ geo_end = NoAtoms
    /\ results_tag = NoFile
    /\ detailed_out = NoFile
    /\ lines = NoList
    /\ results = << >>
    /\ call = [op |-> "none", err |-> "", all_species |-> <<>>, species_numbers |-> <<>>]
    /\ runs = 0

\* Siesta.species(atoms)
SpeciesCall ==
    /\ call.op = "none"
    /\ call' = [op |-> "species"] @@ species(atoms, parameters.species)
    /\ UNCHANGED <<calcObject, renderRun, doc, atoms_input, geo_end, results_tag,
                   detailed_out, lines, results, runs, skfCall, guiState, charges_dat>>

SpecSpecies == InitSpecies /\ [][SpeciesCall]_vars

SpeciesReturned == call.op = "species" /\ call.err = ""

\* the species at an atom's number is the atom's own
OwnSpecies(a) ==
    LET n == call.species_numbers[a]
    IN  /\ 1 <= n
        /\ n <= Len(call.all_species)
        /\ call.all_species[n].symbol = atoms[a].symbol
        /\ IsTagged(call.all_species[n]) => call.all_species[n].tag = atoms[a].tag

\* C29: for every atoms object and species list, each atom's number n is
\* within 1..len(all_species) and all_species[n-1] has the atom's symbol
\* and, when it is a tagged species, the atom's tag; also when a tagged
\* species of the input matches no atom.
C29_NumbersNameOwnSpecies ==
    SpeciesReturned => \A a \in 1..Len(atoms) : OwnSpecies(a)


-----------------------------------------------------------------------------
(* The Rotate window *)

\* set_coordinates is called at most MaxChanges times
MaxChanges == 2

\* the angles a spin button can show
AngleValues == {0, 90}
Angles == {<<x, y, z>> : x \in AngleValues, y \in AngleValues, z \in AngleValues}

\* rotate('%fx,%fy,%fz' % (x, y, z)): the axes, named by the angles they
\* were made from
rotate(x, y, z) == <<x, y, z>>

\* a callback that does not look at update
change_always(w, g) ==
    [axes |-> rotate(w.rotate[1], w.rotate[2], w.rotate[3]),
     set_coordinates |-> g.set_coordinates + 1]

\* Rotate.change(adjustment): the viewer after the callback
change(w, g) ==
    IF w.update
    THEN [axes |-> rotate(w.rotate[1], w.rotate[2], w.rotate[3]),
          set_coordinates |-> g.set_coordinates + 1]
    ELSE g

\* the window as Rotate.__init__ leaves it: the adjustments show
\* irotate(gui.axes) and update is the class's True
InitRotate ==
    /\ parameters = CalcParameters
    /\ atoms = NoAtoms
    /\ pcpot = NoPcpot
    /\ slako = [x \in {"C", "O"} |-> NoFile]
    /\ InitRun("idle")
    /\ InitFiles
    /\ skf_in = NoFile
    /\ skf_out = NotCalled
    /\ charges_dat = NoFile
    /\ \E axes \in Angles, angles \in Angles :
           /\ gui = [axes |-> axes, set_coordinates |-> 0]
           /\ win = [update |-> TRUE, rotate |-> angles, at |-> "idle",
                     angles |-> <<>>, i |-> 0]

RotateUnchanged ==
    UNCHANGED <<calcObject, renderRun, doc, atoms_input, geo_end, results_tag,
                detailed_out, lines, results, runs, skfCall, charges_dat>>

\* the user sets the spin button k to v: 'value-changed' calls change()
UserChange(k, v) ==
    /\ win.at = "idle"
    /\ win.rotate[k] # v
    /\ gui.set_coordinates < MaxChanges
    /\ win' = [win EXCEPT !.rotate[k] = v]
    /\ gui' = change(win', gui)
    /\ call' = [op |-> "change", err |-> "", emitted |-> 1]
    /\ RotateUnchanged

\* the user turns the structure with the mouse
MouseRotate(axes) ==
    /\ win.at = "idle"
    /\ gui.axes # axes
    /\ gui' = [gui EXCEPT !.axes = axes]
    /\ call' = [op |-> "mouse", err |-> "", emitted |-> 0]
    /\ UNCHANGED win
    /\ RotateUnchanged

\* update_angles, up to the loop: angles = irotate(self.gui.axes);
\* self.update = False
UpdateBegin(angles) ==
    /\ win.at = "idle"
    /\ win' = [win EXCEPT !.update = FALSE, !.at = "assign", !.angles = angles,
                          !.i = 1]
    /\ call' = [op |-> "update_angles", err |-> "", emitted |-> 0]
    /\ UNCHANGED gui
    /\ RotateUnchanged

\* one pass of the loop: r.value = a; the toolkit may call change() for it
Assign(emit) ==
    /\ win.at = "assign"
    /\ win.i <= 3
    /\ win' = [win EXCEPT !.rotate[win.i] = win.angles[win.i], !.i = win.i + 1]
    /\ gui' = IF emit THEN change(win', gui) ELSE gui
    /\ call' = [call EXCEPT !.emitted = call.emitted + (IF emit THEN 1 ELSE 0)]
    /\ RotateUnchanged

\* update_angles after the loop: self.update = True
UpdateEnd ==
    /\ win.at = "assign"
    /\ win.i > 3
    /\ win' = [win EXCEPT !.update = TRUE, !.at = "idle", !.i = 0]
    /\ UNCHANGED <<gui, call>>
    /\ RotateUnchanged

NextRotate ==
    \/ \E k \in 1..3, v \in AngleValues : UserChange(k, v)
    \/ \E axes \in Angles : MouseRotate(axes)
    \/ \E angles \in Angles : UpdateBegin(angles)
    \/ \E emit \in BOOLEAN : Assign(emit)
    \/ UpdateEnd

SpecRotate == InitRotate /\ [][NextRotate]_vars

InUpdateAngles == win.at = "assign"

\* C30: no step of update_angles changes gui.axes or calls
\* gui.set_coordinates, update is True whenever update_angles is not
\* running, and a change() of the user after it sets gui.axes from the
\* three adjustments and calls set_coordinates.
C30_UpdateAnglesLeavesAxes ==
    [][ /\ (InUpdateAngles \/ InUpdateAngles') => gui' = gui
        /\ ~InUpdateAngles' => win'.update
        /\ (~InUpdateAngles /\ ~InUpdateAngles' /\ win'.rotate # win.rotate)
               => /\ gui'.axes = rotate(win'.rotate[1], win'.rotate[2], win'.rotate[3])
                  /\ gui'.set_coordinates = gui.set_coordinates + 1 ]_vars

\* update_angles has set an adjustment with the callback called, the axes
\* as the mouse left them; then a change of the user set the axes
C30_Witness ==
    /\ call.op = "change"
    /\ win.at = "idle"
    /\ win.update
    /\ win.angles = <<90, 90, 0>>
    /\ win.rotate = <<90, 90, 90>>
    /\ gui.axes = <<90, 90, 90>>
    /\ gui.set_coordinates = 1

====
